---- MODULE Spec2Model ----
(***************************************************************************)
(* cp-runner: the control plane (pkg/api/server.go), the per-project       *)
(* orchestrator (pkg/project), the process supervisor                      *)
(* (pkg/runtime/supervisor.go) and the life cycle of the reverse proxy     *)
(* (pkg/proxy), as a state machine of concurrent request handlers.         *)
(*                                                                         *)
(* Every restart gets a fresh upstream port from FindFreePort, creates one *)
(* proxy and spawns at most one child, so the upstream port identifies     *)
(* both the proxy and the child of a restart.                              *)
(*                                                                         *)
(* Time is abstracted: a timeout branch of the code is a step that may be  *)
(* taken whenever the event it waits for has not happened.                 *)
(***************************************************************************)
EXTENDS Integers, FiniteSets, Sequences, TLC

\* ------------------------------------------------------------------ bounds
NumThreads == 2
MaxRequests == 3
MaxAddPackage == 1
MaxFaults == 1
MaxTimeouts == 1
MaxOrphans == 1
MaxLines == 1

Projects == {"A", "B"}
Threads == 1..NumThreads
Ports == 1..MaxRequests
NoPort == 0

\* Holders of a mutex: Free, a request thread t, GorId(t) the stop goroutine
\* of thread t's StopProject call, OrphanId a stop goroutine whose StopProject
\* call has timed out and returned.
Free == 0
GorId(t) == NumThreads + t
OrphanId == 2 * NumThreads + 1

VARIABLES
    registry,       \* s.orchestrators: the projects that have an orchestrator
    regLock,        \* s.mu: the thread holding it for writing, or Free
    orch,           \* per project, the Orchestrator: mu (its holder), proxyServer
                    \* (the port of the restart that created the proxy, NoPort for
                    \* nil), isRestarting, appPort, and id, how many orchestrators
                    \* getOrchestrator has made for the path (0: none yet)
    sup,            \* per project, the Supervisor: cmdMutex (its holder), currentCmd
                    \* (the port of the child, NoPort for nil), orphans (stop
                    \* goroutines of timed-out StopProject calls waiting for cmdMutex),
                    \* processOutput (the lines in the output buffer), pump (the
                    \* child of which an output pump has scanned a line and waits
                    \* for cmdMutex, NoPort for none), emitted (lines scanned so far)
    nodeModules,    \* per project, whether <projectPath>/node_modules exists
    child,          \* per port: "none" | "starting" | "ready" | "dead"
    proxy,          \* per port: "none" | "started" (Start called, listening on the
                    \* public port) | "unbound" (Start called, the public port was
                    \* held by another proxy) | "stopped"
    loading,        \* per port: ProxyServer.isLoading
    portProj,       \* per port: the project it was allocated for
    nextPort,       \* the next port FindFreePort returns
    faults,         \* failures of the environment so far
    timeouts,       \* StopProject deadlines passed so far
    thr,            \* per request thread: its position and locals
    reqCount,       \* requests issued so far
    addCount,       \* add-package requests issued so far
    \* history variables
    readyProbed,    \* ports that answered the readiness probe of their own restart
    killTimedOut,   \* children whose kill did not take effect within the kill grace
    down,           \* projects that were running when a start of another project
                    \* began which has returned, and not restarted since
    okStarted,      \* upstream ports that answered a start which returned success, no
                    \* start or stop issued since
    \* the handlers that keep no state between requests
    req,            \* the request being served, with what it finds on disk or upstream
    resp            \* the response to it, NoResponse before the handler has run

vars == <<registry, regLock, orch, sup, nodeModules, child, proxy, loading, portProj,
          nextPort, faults, timeouts, thr, reqCount, addCount, readyProbed, killTimedOut,
          down, okStarted, req, resp>>

\* The request and the response of the handlers that keep no state.
stateless == <<req, resp>>

\* The state of the orchestrators, their children and the request threads.
stateful == <<registry, regLock, orch, sup, nodeModules, child, proxy, loading, portProj,
              nextPort, faults, timeouts, thr, reqCount, addCount, readyProbed, killTimedOut,
              down, okStarted>>

NoRequest == [kind |-> "none"]
NoResponse == [status |-> 0]

\* A thread that has served no request yet; pc is "done" when its handler has
\* returned.  Locals: so is the orchestrator of the IsRunning or StopProject
\* call in progress, todo the orchestrators stopAllProjects has still to
\* visit, ctx the caller of StopProject ("sa" stopAllProjects, "rp"
\* RestartProject, "h" the stop handler), sproxy StopProject's local
\* proxyServer, gor and gres its goroutine's position and the value it sends
\* on done, myPort the appPort argument of RestartProject, probePort the port
\* IsRunning probes or the port that answered a waiter's waitForAppReady, late
\* whether a waiter's deadline is later than the restarting caller's, res the
\* handler's result.  History: joined is the port of the restart in progress
\* when a waiter joined, sbegin s.currentCmd when StopProject took the
\* orchestrator lock, snap the other projects running when a start began,
\* expectDown whether the project was in down when a check-preview began,
\* expectUp its ports in okStarted then, inBody whether a RestartProject body
\* was in progress when the IsRunning of a check-preview read the state,
\* missing whether the directory of a start request did not exist, added and
\* restartServer the result of AddPackage and the RestartServer field of an
\* add-package request, installFailed whether the install command of its
\* RestartProject exited non-zero.
IdleThread ==
    [pc |-> "idle", kind |-> "none", proj |-> "A", so |-> "A", todo |-> {}, ctx |-> "h",
     sproxy |-> NoPort, gor |-> "none", gres |-> FALSE, myPort |-> NoPort,
     probePort |-> NoPort, late |-> FALSE, res |-> FALSE, joined |-> NoPort,
     sbegin |-> NoPort, snap |-> {}, expectDown |-> FALSE, expectUp |-> {},
     inBody |-> FALSE, missing |-> FALSE, added |-> FALSE, restartServer |-> FALSE,
     installFailed |-> FALSE]

Init ==
    /\ registry = {}
    /\ regLock = Free
    /\ orch = [o \in Projects |->
                [mu |-> Free, proxyServer |-> NoPort, isRestarting |-> FALSE, appPort |-> NoPort,
                 id |-> 0]]
    /\ sup = [o \in Projects |-> [cmdMutex |-> Free, currentCmd |-> NoPort, orphans |-> 0,
                                  processOutput |-> 0, pump |-> NoPort, emitted |-> 0]]
    /\ nodeModules = [o \in Projects |-> FALSE]
    /\ child = [p \in Ports |-> "none"]
    /\ proxy = [p \in Ports |-> "none"]
    /\ loading = [p \in Ports |-> FALSE]
    /\ portProj = [p \in Ports |-> "A"]
    /\ nextPort = 1
    /\ faults = 0
    /\ timeouts = 0
    /\ thr = [t \in Threads |-> IdleThread]
    /\ reqCount = 0
    /\ addCount = 0
    /\ readyProbed = {}
    /\ killTimedOut = {}
    /\ down = {}
    /\ okStarted = {}
    /\ req = NoRequest
    /\ resp = NoResponse

\* ----------------------------------------------------------------- helpers

Alive(p) == p # NoPort /\ child[p] \in {"starting", "ready"}

\* A port goes on answering after its child has exited.
AnswersOnceReady(p) == p # NoPort /\ child[p] \in {"ready", "dead"}

\* An HTTP request to localhost:<p> gets a response.
Answers(p) == p # NoPort /\ child[p] = "ready"

\* A proxy whose Start has been called and whose Stop has not.
Started(p) == p # NoPort /\ proxy[p] \in {"started", "unbound"}

\* A proxy that accepts connections on the public port.
Listening(p) == p # NoPort /\ proxy[p] = "started"

\* ProxyServer.Start: ListenAndServe binds the public port, or returns an
\* error, which RestartProject only prints, when a proxy that has not been
\* stopped is listening on it.  The goroutine of Start is taken to run as
\* soon as it is created.
ListenAndServe(px) == IF \E q \in Ports : px[q] = "started" THEN "unbound" ELSE "started"

\* The environment fails at most MaxFaults times: a command that exits non-zero
\* or cannot be started, a child that exits by itself or survives its signals,
\* a kill that fails.
Fault(n) == /\ faults + n <= MaxFaults
            /\ faults' = faults + n

\* A StopProject deadline passes at most MaxTimeouts times while the stop
\* goroutine is making progress.
Timeout == /\ timeouts < MaxTimeouts
           /\ timeouts' = timeouts + 1
           /\ UNCHANGED faults

\* ProxyServer.Stop: Shutdown, and Close if Shutdown fails.  A server that was
\* shut down never listens, also when the goroutine of Start had not run
\* ListenAndServe yet.
ProxyStop(px, p) == IF p = NoPort THEN px ELSE [px EXCEPT ![p] = "stopped"]

\* An IsRunning that does not look at the restarting flag.
RunningIgnoresRestart(o) == orch[o].proxyServer # NoPort

\* Orchestrator.IsRunning up to the probe: proxy present and not restarting.
RunningState(o) == orch[o].proxyServer # NoPort /\ ~orch[o].isRestarting

\* What IsRunning returns when its state read and its probe happen now.
Running(o) == o \in registry /\ RunningState(o) /\ Answers(orch[o].appPort)

\* The positions of the restart body: from setRestarting(true) returning true
\* to the deferred setRestarting(false).
RestartBodyPcs == {"rp_port", "rp_proxy", "rp_startdev", "sd_deadlock", "rp_wait",
                   "rp_fw_stop", "rp_fw_in", "rp_reset"}
StopProjectPcs == {"sp_lock", "sp_wait", "sp_force", "sp_force_in"}

InBody(t) == \/ thr[t].pc \in RestartBodyPcs
             \/ thr[t].pc \in StopProjectPcs /\ thr[t].ctx = "rp"

\* A RestartProject body is in progress on orchestrator o.
Restarting(o) == \E u \in Threads : InBody(u) /\ thr[u].proj = o

\* project.NewOrchestrator: the id-th orchestrator made for a path.
NewOrchestrator(id) ==
    [mu |-> Free, proxyServer |-> NoPort, isRestarting |-> FALSE, appPort |-> NoPort, id |-> id]

\* A getOrchestrator that finds no entry.
NeverExists(p) == FALSE

\* The test of getOrchestrator for an entry of the path.
Exists(p) == p \in registry

\* ControlPlaneServer.getOrchestrator: look up or create, under s.mu.
GetOrchestrator(p) ==
    /\ regLock = Free
    /\ IF Exists(p)
       THEN UNCHANGED <<registry, orch>>
       ELSE /\ registry' = registry \cup {p}
            /\ orch' = [orch EXCEPT ![p] = NewOrchestrator(@.id + 1)]
    /\ UNCHANGED regLock

\* ------------------------------------------------------- request handlers

\* A request is taken by the first thread that is free (it has served no
\* request yet, or its handler has returned), and the first request names
\* project "A": threads and projects are interchangeable.
Accepts(t, p) ==
    /\ thr[t].pc \in {"idle", "done"}
    /\ \A u \in Threads : u < t => thr[u].pc \notin {"idle", "done"}
    /\ reqCount < MaxRequests
    /\ reqCount = 0 => p = "A"
    /\ reqCount' = reqCount + 1

\* A start handler that does not look at the project directory.
StartAnyway(exists) == TRUE

\* handleStartProject goes on after os.Stat iff the directory is not missing.
StartProceeds(exists) == exists

\* handleStartProject up to stopAllProjects, exists telling whether the
\* project directory exists: if it does not, the handler returns 400.
BeginStart(t, p, exists) ==
    /\ Accepts(t, p)
    /\ thr' = [thr EXCEPT ![t] =
                IF StartProceeds(exists)
                THEN [IdleThread EXCEPT !.kind = "start", !.proj = p, !.pc = "sa_lock",
                                        !.missing = ~exists,
                                        !.snap = {o \in Projects \ {p} : Running(o)}]
                ELSE [IdleThread EXCEPT !.kind = "start", !.proj = p, !.pc = "done",
                                        !.missing = ~exists]]
    /\ okStarted' = {}
    /\ UNCHANGED <<registry, regLock, orch, sup, nodeModules, child, proxy, loading,
                   portProj, stateless, nextPort, faults, timeouts, addCount, readyProbed,
                   killTimedOut, down>>

\* An add-package that restarts whenever a restart was requested.
RestartIfRequested(success, restartServer) == restartServer

\* handleAddPackage stops the other projects and restarts the target iff the
\* package was added and the request asked for a restart.
RestartAfterAdd(success, restartServer) == success /\ restartServer

\* handleAddPackage up to stopAllProjects: getOrchestrator, AddPackage, and the
\* test of success && RestartServer.
BeginAddPackage(t, p, success, restartServer) ==
    /\ Accepts(t, p)
    /\ addCount < MaxAddPackage
    /\ addCount' = addCount + 1
    /\ GetOrchestrator(p)
    /\ IF RestartAfterAdd(success, restartServer)
       THEN /\ thr' = [thr EXCEPT ![t] = [IdleThread EXCEPT !.kind = "addpkg", !.proj = p,
                                                 !.added = success,
                                                 !.restartServer = restartServer,
                                                 !.pc = "sa_lock"]]
            /\ okStarted' = {}
       ELSE /\ thr' = [thr EXCEPT ![t] = [IdleThread EXCEPT !.kind = "addpkg", !.proj = p,
                                                 !.added = success,
                                                 !.restartServer = restartServer,
                                                 !.pc = "done", !.res = success]]
            /\ UNCHANGED okStarted
    /\ UNCHANGED <<sup, nodeModules, child, proxy, loading, portProj, stateless, nextPort,
                   timeouts, faults, readyProbed, killTimedOut, down>>

\* handleStopProject up to StopProject.
BeginStop(t, p) ==
    /\ Accepts(t, p)
    /\ GetOrchestrator(p)
    /\ thr' = [thr EXCEPT ![t] = [IdleThread EXCEPT !.kind = "stop", !.proj = p, !.so = p,
                                    !.ctx = "h", !.pc = "sp_lock"]]
    /\ okStarted' = {}
    /\ UNCHANGED <<sup, nodeModules, child, proxy, loading, portProj, stateless, nextPort,
                   timeouts, faults, addCount, readyProbed, killTimedOut, down>>

\* A check-preview that looks the project up with getOrchestrator.
CheckCreates(p) == registry \cup {p}

\* The registry after the lookup of check-preview: s.orchestrators is read
\* under s.mu.RLock and not written.
CheckLookup(p) == registry

\* The check-preview handler up to IsRunning.
BeginCheck(t, p) ==
    /\ Accepts(t, p)
    /\ regLock = Free
    /\ registry' = CheckLookup(p)
    /\ thr' = [thr EXCEPT ![t] =
                [IdleThread EXCEPT !.kind = "check", !.proj = p, !.so = p,
                          !.expectDown = p \in down,
                                   !.expectUp = {q \in okStarted : portProj[q] = p},
                          !.pc = IF p \in registry THEN "ir_lock" ELSE "done"]]
    /\ UNCHANGED <<regLock, orch, sup, nodeModules, child, proxy, loading,
                   portProj, stateless, nextPort, faults, timeouts, addCount, readyProbed,
                   killTimedOut, down, okStarted>>

\* ------------------------------------------------------- stopAllProjects

StopAllLock(t) ==
    /\ thr[t].pc = "sa_lock"
    /\ regLock = Free
    /\ regLock' = t
    /\ thr' = [thr EXCEPT ![t] = [@ EXCEPT !.todo = registry, !.pc = "sa_loop"]]
    /\ UNCHANGED <<registry, orch, sup, nodeModules, child, proxy, loading, portProj, stateless,
                   nextPort, faults, timeouts, reqCount, addCount, readyProbed,
                   killTimedOut, down, okStarted>>

\* The next orchestrator of the range loop (Go's map order is unspecified).
StopAllNext(t) ==
    /\ thr[t].pc = "sa_loop"
    /\ \E o \in thr[t].todo :
        thr' = [thr EXCEPT ![t] = [@ EXCEPT !.todo = @ \ {o}, !.so = o, !.ctx = "sa",
                                      !.pc = "ir_lock"]]
    /\ UNCHANGED <<registry, regLock, orch, sup, nodeModules, child, proxy, loading,
                   portProj, stateless, nextPort, faults, timeouts, reqCount, addCount, readyProbed,
                   killTimedOut, down, okStarted>>

\* The loop is over: the deferred s.mu.Unlock runs and stopAllProjects returns.
StopAllDone(t) ==
    /\ thr[t].pc = "sa_loop"
    /\ thr[t].todo = {}
    /\ regLock' = Free
    /\ thr' = [thr EXCEPT ![t] = [@ EXCEPT !.so = "A", !.pc = "fp"]]
    /\ UNCHANGED <<registry, orch, sup, nodeModules, child, proxy, loading, portProj, stateless,
                   nextPort, faults, timeouts, reqCount, addCount, readyProbed,
                   killTimedOut, down, okStarted>>

\* A stopAllProjects that stops nothing.
StopAllStopsNothing(running) == FALSE

\* stopAllProjects stops an orchestrator only if IsRunning returned true.
StopAllStops(running) == running

\* proxy.FindFreePort, and in handleStartProject the getOrchestrator after it.
FindFreePort(t) ==
    /\ thr[t].pc = "fp"
    /\ nextPort \in Ports
    /\ IF thr[t].kind = "start" THEN GetOrchestrator(thr[t].proj)
                                ELSE UNCHANGED <<registry, regLock, orch>>
    /\ portProj' = [portProj EXCEPT ![nextPort] = thr[t].proj]
    /\ UNCHANGED stateless
    /\ nextPort' = nextPort + 1
    /\ thr' = [thr EXCEPT ![t] = [@ EXCEPT !.myPort = nextPort, !.pc = "rp_set"]]
    /\ UNCHANGED <<sup, nodeModules, child, proxy, loading, faults, timeouts,
                   reqCount, addCount, readyProbed, killTimedOut, down, okStarted>>

\* ------------------------------------------------------------- IsRunning

\* The locked part of IsRunning: false without a probe when there is no proxy
\* or a restart is in progress.
IsRunningLock(t) ==
    /\ thr[t].pc = "ir_lock"
    /\ orch[thr[t].so].mu = Free
    /\ thr' = [thr EXCEPT ![t] =
                IF RunningState(thr[t].so)
                THEN [@ EXCEPT !.probePort = orch[thr[t].so].appPort, !.pc = "ir_probe",
                               !.inBody = thr[t].kind = "check" /\ Restarting(thr[t].so)]
                ELSE [@ EXCEPT !.pc = IF thr[t].kind = "check" THEN "done" ELSE "sa_loop",
                               !.inBody = thr[t].kind = "check" /\ Restarting(thr[t].so)]]
    /\ UNCHANGED <<registry, regLock, orch, sup, nodeModules, child, proxy, loading,
                   portProj, stateless, nextPort, faults, timeouts, reqCount, addCount, readyProbed,
                   killTimedOut, down, okStarted>>

\* The HEAD probe of IsRunning, and what its caller does with the answer.
IsRunningProbe(t) ==
    /\ thr[t].pc = "ir_probe"
    /\ LET r == Answers(thr[t].probePort) IN
        thr' = [thr EXCEPT ![t] =
                 [@ EXCEPT !.probePort = NoPort,
                           !.res = thr[t].kind = "check" /\ r,
                           !.pc = IF thr[t].kind = "check" THEN "done"
                                  ELSE IF StopAllStops(r) THEN "sp_lock" ELSE "sa_loop"]]
    /\ UNCHANGED <<registry, regLock, orch, sup, nodeModules, child, proxy, loading,
                   portProj, stateless, nextPort, faults, timeouts, reqCount, addCount, readyProbed,
                   killTimedOut, down, okStarted>>

\* ---------------------------------------- Supervisor.StopCurrentProcess

\* How the wait inside StopCurrentProcess can end for child c:
\*   "exit"        the child exited after the interrupt or after the kill, or
\*                 had exited before (Wait returns at once): state cleared, true
\*   "killfail"    the interrupt grace ran out and Process.Kill returned an
\*                 error, the child having exited meanwhile: false, state kept
\*   "killtimeout" the kill did not take effect within the kill grace: false,
\*                 state kept, the child still alive
StopOutcomes(c) == IF Alive(c) THEN {"exit", "killfail", "killtimeout"} ELSE {"exit"}

StopResult(oc) == oc = "exit"

\* A StopCurrentProcess that reports success when there was nothing to stop.
NothingIsStopped == TRUE

\* What StopCurrentProcess returns when s.currentCmd == nil.
NothingToStop == FALSE

\* StopCurrentProcess with s.currentCmd == nil: state cleared, false.  The
\* lock is taken and released in the step.
StopNothing(o) ==
    /\ sup[o].cmdMutex = Free
    /\ sup[o].currentCmd = NoPort
    /\ sup' = [sup EXCEPT ![o].processOutput = 0]
    /\ UNCHANGED <<child, killTimedOut, faults>>

\* StopCurrentProcess with a current child, first half: the lock is taken and
\* the interrupt is sent; holder h then waits with the lock held.
StopEnter(o, h) ==
    /\ sup[o].cmdMutex = Free
    /\ sup[o].currentCmd # NoPort
    /\ sup' = [sup EXCEPT ![o].cmdMutex = h]
    /\ UNCHANGED <<child, killTimedOut, faults>>

\* A stop that leaves the child as it is.
ChildUntouched(c, oc) == child[c]

\* The child's state when the wait ended with outcome oc.
ChildAfterStop(c, oc) == IF oc = "killtimeout" THEN child[c] ELSE "dead"

\* s.currentCmd when StopCurrentProcess returns after outcome oc.
CmdAfterStop(c, oc) == IF StopResult(oc) THEN NoPort ELSE c

\* s.processOutput when StopCurrentProcess returns after outcome oc: cleared
\* with the process state, kept when the call gives up.
OutputAfterStop(n, oc) == IF StopResult(oc) THEN 0 ELSE n

\* StopCurrentProcess, second half: the wait ends, the lock is released.
StopExit(o, h, oc) ==
    /\ sup[o].cmdMutex = h
    /\ oc \in StopOutcomes(sup[o].currentCmd)
    /\ Fault(IF oc = "exit" THEN 0 ELSE 1)
    /\ child' = [child EXCEPT ![sup[o].currentCmd] = ChildAfterStop(sup[o].currentCmd, oc)]
    /\ sup' = [sup EXCEPT ![o].currentCmd = CmdAfterStop(sup[o].currentCmd, oc),
                          ![o].processOutput = OutputAfterStop(sup[o].processOutput, oc),
                          ![o].cmdMutex = Free]
    /\ killTimedOut' = IF oc = "killtimeout" THEN killTimedOut \cup {sup[o].currentCmd}
                       ELSE killTimedOut

\* A caller of StartDevServer that blocked on cmdMutex while holding it.
Stuck(o) == \E u \in Threads : thr[u].pc = "sd_deadlock" /\ thr[u].proj = o

\* ------------------------------------------------ Orchestrator.StopProject

\* Where StopProject returns to.
AfterStop(t) == CASE thr[t].ctx = "sa" -> "sa_loop"
                  [] thr[t].ctx = "rp" -> "rp_port"
                  [] OTHER -> "done"

\* The proxy StopProject stops: the snapshot of o.proxyServer.
StopSnapshot(o) == orch[o].proxyServer

\* o.mu is taken (and held to the return), the proxy handle is snapshot and
\* nulled, the stop goroutine is started and calls proxyServer.Stop() on the
\* snapshot if it is not nil.
StopProjectLock(t) ==
    /\ thr[t].pc = "sp_lock"
    /\ orch[thr[t].so].mu = Free
    /\ orch' = [orch EXCEPT ![thr[t].so].mu = t, ![thr[t].so].proxyServer = NoPort]
    /\ proxy' = ProxyStop(proxy, StopSnapshot(thr[t].so))
    /\ thr' = [thr EXCEPT ![t] = [@ EXCEPT !.sproxy = StopSnapshot(thr[t].so),
                                    !.gor = "lock",
                                    !.sbegin = sup[thr[t].so].currentCmd,
                                    !.pc = "sp_wait"]]
    /\ UNCHANGED <<registry, regLock, sup, nodeModules, child, loading, portProj,
                   stateless, nextPort,
                   timeouts, faults, reqCount, addCount, readyProbed, killTimedOut, down,
                   okStarted>>

\* The goroutine: o.supervisor.StopCurrentProcess() on whatever child is
\* current now.
GorStopEnter(t) ==
    /\ thr[t].gor = "lock"
    /\ \/ /\ StopNothing(thr[t].so)
          /\ thr' = [thr EXCEPT ![t] = [@ EXCEPT !.gor = "done", !.gres = NothingToStop]]
       \/ /\ StopEnter(thr[t].so, GorId(t))
          /\ thr' = [thr EXCEPT ![t] = [@ EXCEPT !.gor = "in"]]
    /\ UNCHANGED <<registry, regLock, orch, nodeModules, proxy, loading, portProj, stateless,
                   nextPort, timeouts, reqCount, addCount, readyProbed, down, okStarted>>

GorStopExit(t) ==
    /\ thr[t].gor = "in"
    /\ \E oc \in {"exit", "killfail", "killtimeout"} :
        /\ StopExit(thr[t].so, GorId(t), oc)
        /\ thr' = [thr EXCEPT ![t] = [@ EXCEPT !.gor = "done", !.gres = StopResult(oc)]]
    /\ UNCHANGED <<registry, regLock, orch, nodeModules, proxy, loading, portProj, stateless,
                   nextPort, timeouts, reqCount, addCount, readyProbed, down, okStarted>>

\* case result := <-done
StopProjectDone(t) ==
    /\ thr[t].pc = "sp_wait"
    /\ thr[t].gor = "done"
    /\ orch' = [orch EXCEPT ![thr[t].so].mu = Free]
    /\ thr' = [thr EXCEPT ![t] = [@ EXCEPT !.res = thr[t].ctx = "h" /\ thr[t].gres,
                                    !.pc = AfterStop(t), !.gor = "none", !.gres = FALSE,
                                    !.sproxy = NoPort, !.sbegin = NoPort]]
    /\ UNCHANGED <<registry, regLock, sup, nodeModules, child, proxy, loading, portProj, stateless,
                   nextPort, faults, timeouts, reqCount, addCount, readyProbed,
                   killTimedOut, down, okStarted>>

\* case <-ctx.Done(): the goroutine is still blocked on the supervisor lock or
\* inside StopCurrentProcess; it runs on by itself.  proxyServer.Stop() is
\* called again.  The deadline passing is a failure of the environment unless
\* the supervisor lock is held by a caller that never releases it.
StopProjectTimeout(t) ==
    /\ thr[t].pc = "sp_wait"
    /\ \/ /\ thr[t].gor = "lock"
          /\ Stuck(thr[t].so)
          /\ sup' = [sup EXCEPT ![thr[t].so].orphans = MaxOrphans]
          /\ UNCHANGED <<faults, timeouts>>
       \/ /\ thr[t].gor = "lock"
          /\ sup[thr[t].so].cmdMutex # Free
          /\ ~Stuck(thr[t].so)
          /\ sup[thr[t].so].orphans < MaxOrphans
          /\ sup' = [sup EXCEPT ![thr[t].so].orphans = @ + 1]
          /\ Timeout
       \/ /\ thr[t].gor = "in"
          /\ sup' = [sup EXCEPT ![thr[t].so].cmdMutex = OrphanId]
          /\ Timeout
    /\ proxy' = ProxyStop(proxy, thr[t].sproxy)
    /\ thr' = [thr EXCEPT ![t] = [@ EXCEPT !.gor = "none", !.pc = "sp_force"]]
    /\ UNCHANGED <<registry, regLock, orch, nodeModules, child, loading, portProj, stateless,
                   nextPort, reqCount, addCount, readyProbed, killTimedOut, down,
                   okStarted>>

\* The forced o.supervisor.StopCurrentProcess() of the timeout branch.
StopProjectForceEnter(t) ==
    /\ thr[t].pc = "sp_force"
    /\ \/ /\ StopNothing(thr[t].so)
          /\ orch' = [orch EXCEPT ![thr[t].so].mu = Free]
          /\ thr' = [thr EXCEPT ![t] = [@ EXCEPT !.res = FALSE, !.pc = AfterStop(t),
                                          !.sproxy = NoPort, !.sbegin = NoPort]]
       \/ /\ StopEnter(thr[t].so, t)
          /\ thr' = [thr EXCEPT ![t] = [@ EXCEPT !.pc = "sp_force_in"]]
          /\ UNCHANGED orch
    /\ UNCHANGED <<registry, regLock, nodeModules, proxy, loading, portProj, stateless, nextPort,
                   timeouts, reqCount, addCount, readyProbed, down, okStarted>>

StopProjectForceExit(t) ==
    /\ thr[t].pc = "sp_force_in"
    /\ \E oc \in {"exit", "killfail", "killtimeout"} : StopExit(thr[t].so, t, oc)
    /\ orch' = [orch EXCEPT ![thr[t].so].mu = Free]
    /\ thr' = [thr EXCEPT ![t] = [@ EXCEPT !.res = FALSE, !.pc = AfterStop(t),
                                    !.sproxy = NoPort, !.sbegin = NoPort]]
    /\ UNCHANGED <<registry, regLock, nodeModules, proxy, loading, portProj, stateless, nextPort,
                   timeouts, reqCount, addCount, readyProbed, down, okStarted>>

\* A stop goroutine left behind by a timed-out StopProject gets the lock.
OrphanStopEnter(o) ==
    /\ sup[o].orphans > 0
    /\ sup[o].cmdMutex = Free
    /\ sup' = [sup EXCEPT ![o].orphans = @ - 1,
                          ![o].cmdMutex = IF sup[o].currentCmd = NoPort THEN Free
                                          ELSE OrphanId,
                          ![o].processOutput = IF sup[o].currentCmd = NoPort THEN 0 ELSE @]
    /\ UNCHANGED <<registry, regLock, orch, nodeModules, child, proxy, loading, portProj, stateless,
                   nextPort, faults, timeouts, thr, reqCount, addCount, readyProbed,
                   killTimedOut, down, okStarted>>

OrphanStopExit(o) ==
    /\ \E oc \in {"exit", "killfail", "killtimeout"} : StopExit(o, OrphanId, oc)
    /\ UNCHANGED <<registry, regLock, orch, nodeModules, proxy, loading, portProj, stateless,
                   nextPort, timeouts, thr, reqCount, addCount, readyProbed, down,
                   okStarted>>

\* --------------------------------------------- Orchestrator.RestartProject

\* A setRestarting(true) that ignores the flag.
SetRestartingAlways(o) == TRUE

\* setRestarting(true): true iff the flag was not set.
SetRestartingOk(o) == ~orch[o].isRestarting

\* History: the handler of thread t returns r, port q having answered its
\* readiness probe if r is true.
Returned(t, r, q) ==
    /\ down' = IF thr[t].kind = "start" THEN down \cup thr[t].snap ELSE down
    /\ okStarted' = IF thr[t].kind = "start" /\ r THEN okStarted \cup {q} ELSE okStarted

\* The port of the restart whose body is in progress on orchestrator o.
BodyPort(o) ==
    LET rs == {r \in Threads : InBody(r) /\ thr[r].proj = o}
    IN IF rs = {} THEN NoPort ELSE thr[CHOOSE r \in rs : TRUE].myPort

\* The restarting caller on orchestrator o is in its waitForAppReady.
Probing(o) == \E u \in Threads : thr[u].pc = "rp_wait" /\ thr[u].proj = o

\* RestartProject's first statement.  The caller that sets the flag goes on
\* to o.StopProject(); a caller that finds it set only waits for readiness.
RestartSet(t) ==
    /\ thr[t].pc = "rp_set"
    /\ orch[thr[t].proj].mu = Free
    /\ IF SetRestartingOk(thr[t].proj)
       THEN /\ orch' = [orch EXCEPT ![thr[t].proj].isRestarting = TRUE]
            /\ thr' = [u \in Threads |->
                        IF u = t
                        THEN [thr[t] EXCEPT !.so = thr[t].proj, !.ctx = "rp", !.pc = "sp_lock",
                                            !.snap = @ \ {thr[t].proj}]
                        ELSE [thr[u] EXCEPT !.snap = @ \ {thr[t].proj},
                                            !.expectDown = @ /\ thr[u].proj # thr[t].proj]]
            /\ down' = down \ {thr[t].proj}
       ELSE /\ thr' = [thr EXCEPT ![t] = [@ EXCEPT !.joined = BodyPort(thr[t].proj),
                                               !.late = Probing(thr[t].proj),
                                               !.pc = "w_wait"]]
            /\ UNCHANGED <<orch, down>>
    /\ UNCHANGED <<registry, regLock, sup, nodeModules, child, proxy, loading, portProj, stateless,
                   nextPort, faults, timeouts, reqCount, addCount, readyProbed,
                   killTimedOut, okStarted>>

\* A caller that found restarting set: waitForAppReady gets a response from
\* the port o.appPort holds at that moment.
WaiterReady(t) ==
    /\ thr[t].pc = "w_wait"
    /\ Answers(orch[thr[t].proj].appPort)
    /\ thr' = [thr EXCEPT ![t] = [@ EXCEPT !.probePort = orch[thr[t].proj].appPort,
                                    !.res = TRUE, !.pc = "done"]]
    /\ Returned(t, TRUE, orch[thr[t].proj].appPort)
    /\ UNCHANGED <<registry, regLock, orch, sup, nodeModules, child, proxy, loading,
                   portProj, stateless, nextPort, faults, timeouts, reqCount, addCount, readyProbed,
                   killTimedOut>>

\* The waiter's own startup timeout ends with no response.  Both waits last
\* startupTimeout: a waiter that joined after the restarting caller began to
\* wait has the later deadline.
WaiterTimeout(t) ==
    /\ thr[t].pc = "w_wait"
    /\ ~Answers(orch[thr[t].proj].appPort)
    /\ thr[t].late => ~Probing(thr[t].proj)
    /\ thr' = [thr EXCEPT ![t] = [@ EXCEPT !.res = FALSE, !.pc = "done"]]
    /\ Returned(t, FALSE, NoPort)
    /\ UNCHANGED <<registry, regLock, orch, sup, nodeModules, child, proxy, loading,
                   portProj, stateless, nextPort, faults, timeouts, reqCount, addCount, readyProbed,
                   killTimedOut>>

\* The install command runs in every restart.
InstallAlways(o) == TRUE

\* The install command runs iff node_modules does not exist.
NeedsInstall(o) == ~nodeModules[o]

\* o.appPort = appPort under o.mu, then the install command if it is needed;
\* a failed install returns the error.
RestartPort(t) ==
    /\ thr[t].pc = "rp_port"
    /\ orch[thr[t].proj].mu = Free
    /\ orch' = [orch EXCEPT ![thr[t].proj].appPort = thr[t].myPort]
    /\ IF NeedsInstall(thr[t].proj)
       THEN \E ok \in BOOLEAN :
              /\ Fault(IF ok THEN 0 ELSE 1)
              /\ nodeModules' = [nodeModules EXCEPT ![thr[t].proj] = ok]
              /\ thr' = [thr EXCEPT ![t] = [@ EXCEPT !.res = FALSE, !.installFailed = ~ok,
                                              !.pc = IF ok THEN "rp_proxy" ELSE "rp_reset"]]
       ELSE /\ thr' = [thr EXCEPT ![t] = [@ EXCEPT !.res = FALSE, !.pc = "rp_proxy"]]
            /\ UNCHANGED <<nodeModules, faults>>
    /\ UNCHANGED <<registry, regLock, sup, child, proxy, loading, portProj, stateless, nextPort,
                   timeouts, reqCount, addCount, readyProbed, killTimedOut, down,
                   okStarted>>

\* NewProxyServer, SetLoadingMode(true), o.proxyServer = proxyServer (written
\* without o.mu), go proxyServer.Start().
RestartProxy(t) ==
    /\ thr[t].pc = "rp_proxy"
    /\ proxy' = [proxy EXCEPT ![thr[t].myPort] = ListenAndServe(proxy)]
    /\ loading' = [loading EXCEPT ![thr[t].myPort] = TRUE]
    /\ orch' = [orch EXCEPT ![thr[t].proj].proxyServer = thr[t].myPort]
    /\ thr' = [thr EXCEPT ![t] = [@ EXCEPT !.pc = "rp_startdev"]]
    /\ UNCHANGED <<registry, regLock, sup, nodeModules, child, portProj,
                   stateless, nextPort, faults,
                   timeouts, reqCount, addCount, readyProbed, killTimedOut, down,
                   okStarted>>

\* Supervisor.StartDevServer.  With a current child it calls StopCurrentProcess
\* while holding cmdMutex, which is not reentrant: the caller blocks for ever
\* with the lock held.  Otherwise the child is spawned, or cmd.Start fails and
\* RestartProject calls proxyServer.Stop() and returns the error.
StartDevServer(t) ==
    /\ thr[t].pc = "rp_startdev"
    /\ sup[thr[t].proj].cmdMutex = Free
    /\ IF sup[thr[t].proj].currentCmd # NoPort
       THEN /\ sup' = [sup EXCEPT ![thr[t].proj].cmdMutex = t]
            /\ thr' = [thr EXCEPT ![t] = [@ EXCEPT !.pc = "sd_deadlock"]]
            /\ UNCHANGED <<child, proxy, faults>>
       ELSE \E ok \in BOOLEAN :
              /\ Fault(IF ok THEN 0 ELSE 1)
              /\ child' = IF ok THEN [child EXCEPT ![thr[t].myPort] = "starting"] ELSE child
              /\ sup' = IF ok THEN [sup EXCEPT ![thr[t].proj].currentCmd = thr[t].myPort]
                        ELSE sup
              /\ proxy' = IF ok THEN proxy ELSE ProxyStop(proxy, thr[t].myPort)
              /\ thr' = [thr EXCEPT ![t] = [@ EXCEPT !.pc = IF ok THEN "rp_wait"
                                                             ELSE "rp_reset"]]
    /\ UNCHANGED <<registry, regLock, orch, nodeModules, loading, portProj, stateless, nextPort,
                   timeouts, reqCount, addCount, readyProbed, killTimedOut, down,
                   okStarted>>

\* A restart that switches its proxy to live mode whatever the probe said.
LiveAfterWait(ready) == FALSE

\* The mode of the proxy after waitForAppReady returned: SetLoadingMode(false)
\* is called only when it returned nil.
LoadingAfterWait(ready) == ~ready

\* waitForAppReady of the restarting caller gets a response from the port
\* o.appPort holds: SetLoadingMode(false), return nil.
RestartReady(t) ==
    /\ thr[t].pc = "rp_wait"
    /\ Answers(orch[thr[t].proj].appPort)
    /\ readyProbed' = IF orch[thr[t].proj].appPort = thr[t].myPort
                      THEN readyProbed \cup {thr[t].myPort} ELSE readyProbed
    /\ loading' = [loading EXCEPT ![thr[t].myPort] = LoadingAfterWait(TRUE)]
    /\ thr' = [thr EXCEPT ![t] = [@ EXCEPT !.res = TRUE, !.pc = "rp_reset"]]
    /\ UNCHANGED <<registry, regLock, orch, sup, nodeModules, child, proxy, portProj, stateless,
                   nextPort, faults, timeouts, reqCount, addCount, killTimedOut, down,
                   okStarted>>

\* The startup timeout ends with no response: proxyServer.Stop() ...
RestartTimeout(t) ==
    /\ thr[t].pc = "rp_wait"
    /\ ~Answers(orch[thr[t].proj].appPort)
    /\ loading' = [loading EXCEPT ![thr[t].myPort] = LoadingAfterWait(FALSE)]
    /\ proxy' = ProxyStop(proxy, thr[t].myPort)
    /\ thr' = [thr EXCEPT ![t] = [@ EXCEPT !.res = FALSE, !.pc = "rp_fw_stop"]]
    /\ UNCHANGED <<registry, regLock, orch, sup, nodeModules, child, portProj, stateless, nextPort,
                   timeouts, faults, reqCount, addCount, readyProbed, killTimedOut, down,
                   okStarted>>

\* ... then o.supervisor.StopCurrentProcess(), its result ignored.
RestartFailStopEnter(t) ==
    /\ thr[t].pc = "rp_fw_stop"
    /\ \/ /\ StopNothing(thr[t].proj)
          /\ thr' = [thr EXCEPT ![t] = [@ EXCEPT !.pc = "rp_reset"]]
       \/ /\ StopEnter(thr[t].proj, t)
          /\ thr' = [thr EXCEPT ![t] = [@ EXCEPT !.pc = "rp_fw_in"]]
    /\ UNCHANGED <<registry, regLock, orch, nodeModules, proxy, loading, portProj, stateless,
                   nextPort, timeouts, reqCount, addCount, readyProbed, down, okStarted>>

RestartFailStopExit(t) ==
    /\ thr[t].pc = "rp_fw_in"
    /\ \E oc \in {"exit", "killfail", "killtimeout"} : StopExit(thr[t].proj, t, oc)
    /\ thr' = [thr EXCEPT ![t] = [@ EXCEPT !.pc = "rp_reset"]]
    /\ UNCHANGED <<registry, regLock, orch, nodeModules, proxy, loading, portProj, stateless,
                   nextPort, timeouts, reqCount, addCount, readyProbed, down, okStarted>>

\* The deferred setRestarting(false); RestartProject and the handler return.
RestartReset(t) ==
    /\ thr[t].pc = "rp_reset"
    /\ orch[thr[t].proj].mu = Free
    /\ orch' = [orch EXCEPT ![thr[t].proj].isRestarting = FALSE]
    /\ thr' = [thr EXCEPT ![t] = [@ EXCEPT !.pc = "done"]]
    /\ Returned(t, thr[t].res, thr[t].myPort)
    /\ UNCHANGED <<registry, regLock, sup, nodeModules, child, proxy, loading, portProj, stateless,
                   nextPort, faults, timeouts, reqCount, addCount, readyProbed,
                   killTimedOut>>

\* ------------------------------------------------------ processes, proxies

\* The dev server starts to answer on its port.
ChildReady(p) ==
    /\ child[p] = "starting"
    /\ child' = [child EXCEPT ![p] = "ready"]
    /\ UNCHANGED <<registry, regLock, orch, sup, nodeModules, proxy, loading, portProj, stateless,
                   nextPort, faults, timeouts, thr, reqCount, addCount, readyProbed,
                   killTimedOut, down, okStarted>>

\* The dev server exits by itself.
ChildExit(p) ==
    /\ child[p] = "ready"
    /\ Fault(1)
    /\ child' = [child EXCEPT ![p] = "dead"]
    /\ UNCHANGED <<registry, regLock, orch, sup, nodeModules, proxy, loading, portProj, stateless,
                   nextPort, timeouts, thr, reqCount, addCount, readyProbed, killTimedOut,
                   down, okStarted>>

\* Supervisor.handleOutput, first half: a child of supervisor o writes a line
\* and scanner.Scan of one of its two pumps returns it.
PumpScan(o) ==
    /\ sup[o].pump = NoPort
    /\ sup[o].emitted < MaxLines
    /\ \E p \in Ports :
        /\ portProj[p] = o
        /\ Alive(p)
        /\ sup' = [sup EXCEPT ![o].pump = p, ![o].emitted = @ + 1]
    /\ UNCHANGED <<registry, regLock, orch, nodeModules, child, proxy, loading, portProj, stateless,
                   nextPort, faults, timeouts, thr, reqCount, addCount, readyProbed,
                   killTimedOut, down, okStarted>>

\* Supervisor.handleOutput, second half: the pump gets cmdMutex, appends the
\* line to s.processOutput and releases the lock.
PumpAppend(o) ==
    /\ sup[o].pump # NoPort
    /\ sup[o].cmdMutex = Free
    /\ sup' = [sup EXCEPT ![o].processOutput = @ + 1, ![o].pump = NoPort]
    /\ UNCHANGED <<registry, regLock, orch, nodeModules, child, proxy, loading, portProj, stateless,
                   nextPort, faults, timeouts, thr, reqCount, addCount, readyProbed,
                   killTimedOut, down, okStarted>>

\* ------------------------------------------------------------ HTMLInjector

MaxKids == 2
MaxScripts == 2

\* An html.Node that is a child of head: its tag and the text nodes below it.
Node(tag, text) == [tag |-> tag, text |-> text, kids |-> <<>>]

\* An html.Node with element children (the document node has the tag
\* "#document").
Elem(tag, kids) == [tag |-> tag, text |-> <<>>, kids |-> kids]

\* The bytes of a document: whether the html and head tags are written out,
\* and the elements of its head.
Contents ==
    LET Kids == {Node(g, <<>>) : g \in {"title", "script"}}
    IN  [htmlTag : BOOLEAN, headTag : BOOLEAN,
         kids : UNION {[1..n -> Kids] : n \in 0..MaxKids}]

\* A ScriptConfig; one Content has space around it.
ScriptConfigs == [Content : {"", "heartbeat", " navigation "}, InsertFirst : BOOLEAN]

\* The scripts of an injector after its AddScript calls.
Queues == UNION {[1..n -> ScriptConfigs] : n \in 0..MaxScripts}

\* strings.TrimSpace on the script texts.
TrimSpace(s) == IF s = " navigation " THEN "navigation" ELSE s

\* html.Parse builds the tree of the HTML5 parsing algorithm, which has an
\* html element with one head and one body element whether or not the tags
\* are written.
Parse(content) ==
    Elem("#document", <<Elem("html", <<Elem("head", content.kids), Elem("body", <<>>)>>)>>)

\* html.Render writes the tree out: the tags of the root element and of its
\* first child, and the children of that.
Render(doc) ==
    LET root == doc.kids[1]
    IN  [htmlTag |-> root.tag = "html", headTag |-> root.kids[1].tag = "head",
         kids |-> root.kids[1].kids]

\* The error of ensureHead.
NoHtmlTag == [error |-> "no <html> tag found in document"]

\* The node of tree n that the path leads to, a path being the positions of
\* the children to go through.
RECURSIVE Sub(_, _)
Sub(n, path) == IF path = <<>> THEN n ELSE Sub(n.kids[path[1]], Tail(path))

\* Tree n with the children of the node at the path replaced.
RECURSIVE SetKids(_, _, _)
SetKids(n, path, kids) ==
    IF path = <<>> THEN [n EXCEPT !.kids = kids]
    ELSE [n EXCEPT !.kids[path[1]] = SetKids(n.kids[path[1]], Tail(path), kids)]

\* findHead and findHtml of ensureHead: the paths of the nodes the walk
\* assigns to its result, in the order it assigns them. The walk returns at a
\* node with the tag and otherwise goes through all the children, whether or
\* not one of them has assigned the result already.
RECURSIVE find(_, _)
RECURSIVE findBelow(_, _, _)
find(n, tag) == IF n.tag = tag THEN <<<<>>>> ELSE findBelow(n.kids, tag, Len(n.kids))
findBelow(kids, tag, k) ==
    IF k = 0 THEN <<>>
    ELSE LET found == find(kids[k], tag)
         IN  findBelow(kids, tag, k - 1) \o [j \in DOMAIN found |-> <<k>> \o found[j]]

\* ensureHead: the document and the path of its head, an empty head made the
\* first child of html when there was none; the error when there is no html
\* element either. The result of a walk holds what was assigned to it last.
ensureHead(doc) ==
    LET heads == find(doc, "head")
        htmls == find(doc, "html")
    IN  IF heads # <<>> THEN [doc |-> doc, head |-> heads[Len(heads)]]
        ELSE IF htmls = <<>> THEN NoHtmlTag
        ELSE LET htmlNode == htmls[Len(htmls)]
             IN  [doc |-> SetKids(doc, htmlNode,
                                  <<Elem("head", <<>>)>> \o Sub(doc, htmlNode).kids),
                  head |-> htmlNode \o <<1>>]

\* The script element of a ScriptConfig: a text node only for a non-empty
\* Content.
ScriptNode(script) ==
    Node("script", IF script.Content # "" THEN <<TrimSpace(script.Content)>> ELSE <<>>)

\* Every script goes to the end of head.
AppendScript(kids, script) == Append(kids, ScriptNode(script))

\* One turn of the loop of InjectIntoHTML: the children of head after the
\* script is inserted.
InsertScript(kids, script) ==
    IF script.InsertFirst
    THEN IF kids # <<>> THEN <<ScriptNode(script)>> \o kids ELSE Append(kids, ScriptNode(script))
    ELSE Append(kids, ScriptNode(script))

\* The loop of InjectIntoHTML over scripts[1..n].
RECURSIVE InjectScripts(_, _, _)
InjectScripts(kids, scripts, n) ==
    IF n = 0 THEN kids
    ELSE InsertScript(InjectScripts(kids, scripts, n - 1), scripts[n])

\* InjectIntoHTML: the bytes written back, or the error.
InjectIntoHTML(scripts, content) ==
    LET got == ensureHead(Parse(content))
    IN  IF got = NoHtmlTag THEN NoHtmlTag
        ELSE Render(SetKids(got.doc, got.head,
                            InjectScripts(Sub(got.doc, got.head).kids, scripts, Len(scripts))))

\* A document is handed to an injector with queued scripts.
InjectArrive ==
    /\ req = NoRequest
    /\ \E scripts \in Queues, content \in Contents :
           req' = [kind |-> "inject", scripts |-> scripts, content |-> content]
    /\ resp' = NoResponse
    /\ UNCHANGED stateful

\* InjectIntoHTML returns it.
InjectServe ==
    /\ req # NoRequest /\ resp = NoResponse
    /\ resp' = [out |-> InjectIntoHTML(req.scripts, req.content)]
    /\ UNCHANGED <<req, stateful>>

MaxHeight == 3

\* The trees of at most d levels of elements, each with up to MaxKids
\* children.
RECURSIVE TreesOf(_)
TreesOf(d) ==
    IF d = 0 THEN {}
    ELSE LET below == TreesOf(d - 1)
         IN  {Elem(tag, kids) : tag \in {"html", "head", "body"},
                                kids \in UNION {[1..n -> below] : n \in 0..MaxKids}}

\* A document is handed to ensureHead: a document node with no child or with
\* one element below it.
HeadArrive ==
    /\ req = NoRequest
    /\ \E kids \in {<<>>} \cup {<<root>> : root \in TreesOf(MaxHeight)} :
           req' = [kind |-> "head", doc |-> Elem("#document", kids)]
    /\ resp' = NoResponse
    /\ UNCHANGED stateful

\* ensureHead returns.
HeadServe ==
    /\ req # NoRequest /\ resp = NoResponse
    /\ resp' = [out |-> ensureHead(req.doc)]
    /\ UNCHANGED <<req, stateful>>

\* ------------------------------------------------------------- ProxyServer

MaxPathLen == 3
MaxHeaders == 1

\* strings.ToLower on the header names and values that occur.
ToLower(s) ==
    CASE s = "Text/HTML" -> "text/html"
      [] s = "WebSocket" -> "websocket"
      [] s = "Upgrade" -> "upgrade"
      [] s = "Content-Length" -> "content-length"
      [] s = "Cache-Control" -> "cache-control"
      [] s = "ETag" -> "etag"
      [] s = "Last-Modified" -> "last-modified"
      [] s = "Content-Type" -> "content-type"
      [] s = "Pragma" -> "pragma"
      [] s = "Expires" -> "expires"
      [] s = "X-App" -> "x-app"
      [] s = "Access-Control-Allow-Origin" -> "access-control-allow-origin"
      [] s = "Dist" -> "dist"
      [] OTHER -> s

\* A path is the sequence of its characters; an Accept or Content-Type value
\* the sequence of the items it lists.
ToLowerAll(v) == [i \in DOMAIN v |-> ToLower(v[i])]
Contains(v, x) == \E i \in DOMAIN v : v[i] = x
HasSuffix(v, x) == v # <<>> /\ v[Len(v)] = x

\* strings.LastIndex, counted from 1: 0 when x does not occur.
LastIndex(v, x) ==
    IF Contains(v, x) THEN CHOOSE i \in DOMAIN v : v[i] = x /\ \A j \in DOMAIN v : j > i => v[j] # x
    ELSE 0

\* Header.Set on a header, a set of <<name, value>> pairs, and the values a
\* header has for a name.
Set(h, k, v) == {x \in h : x[1] # k} \cup {<<k, v>>}
Values(h, k) == {x[2] : x \in {y \in h : y[1] = k}}

\* The requests that reach the proxy.
ProxyRequests ==
    LET Paths == {p \in UNION {[1..n -> {"/", ".", "a"}] : n \in 1..MaxPathLen} : p[1] = "/"}
    IN  [Method : {"GET", "POST", "OPTIONS"},
         Accept : {<<>>, <<"*/*">>, <<"Text/HTML">>, <<"image/png", "text/html">>},
         Path : Paths,
         Upgrade : {"", "WebSocket"}, Connection : {"keep-alive", "Upgrade"}]

\* A ProxyServer as a request finds it: isLoading, and the static files that
\* are in its cache or can be read.
ProxyServers ==
    [isLoading : BOOLEAN,
     static : {S \in SUBSET {"loading.html", "heartbeat.js", "navigation.js"} :
                  Cardinality(S) >= 2}]

\* What the app server answers: nothing (the connection is refused), or a
\* response.
Refused == [status |-> 0]
Upstream ==
    LET Pool == {<<"Content-Length", "5">>, <<"Cache-Control", "max-age=60">>,
                 <<"ETag", "x">>, <<"Last-Modified", "d">>, <<"Pragma", "p">>,
                 <<"Expires", "1">>, <<"X-App", "1">>,
                 <<"Access-Control-Allow-Origin", "http://a">>}
    IN  {Refused} \cup
        [status : {200, 404},
         ContentType : {<<>>, <<"application/json">>, <<"Text/HTML", "charset=utf-8">>},
         Header : {H \in SUBSET Pool : Cardinality(H) <= MaxHeaders},
         Body : {[htmlTag |-> FALSE, headTag |-> FALSE, kids |-> <<>>],
                 [htmlTag |-> TRUE, headTag |-> TRUE, kids |-> <<Node("title", <<>>)>>]}]

\* resp.Header of an upstream response.
UpstreamHeader(up) ==
    up.Header \cup (IF up.ContentType # <<>> THEN {<<"Content-Type", up.ContentType>>} ELSE {})

\* A response of the proxy: via is "local" when the proxy answered by itself,
\* "http" or "websocket" when the request went to the upstream port.
Response(status, header, body, via) ==
    [status |-> status, Header |-> header, Body |-> body, via |-> via]

\* http.Error.
Error(header, error, code, via) ==
    Response(code,
             Set(Set(header, "Content-Type", <<"text/plain", "charset=utf-8">>),
                 "X-Content-Type-Options", "nosniff"),
             error, via)

\* The CORS headers of every response.
CorsHeader ==
    Set(Set(Set({}, "Access-Control-Allow-Origin", "*"),
            "Access-Control-Allow-Methods", "GET, POST, OPTIONS"),
        "Access-Control-Allow-Headers", "Accept, Authorization, Content-Type, Upgrade, Connection")

isWebSocketUpgrade(r) == ToLower(r.Upgrade) = "websocket" /\ ToLower(r.Connection) = "upgrade"

\* handleWebSocket: the bytes of the upstream go to the hijacked connection as
\* they are.
handleWebSocket(header, r, up) ==
    IF up = Refused THEN Error(header, "Could not connect to app server", 503, "websocket")
    ELSE Response(up.status, UpstreamHeader(up), up.Body, "websocket")

\* The headers of the upstream that are not copied.
Skipped == {"content-length", "cache-control", "etag", "last-modified"}

\* Every header of the upstream is copied.
CopyAll(header, up) == header \cup UpstreamHeader(up)

\* The loop of proxyHTTPRequest that copies the headers of the upstream.
CopyHeaders(header, up) ==
    header \cup {x \in UpstreamHeader(up) : ToLower(x[1]) \notin Skipped}

\* The scripts proxyHTTPRequest queues.
ProxyScripts(static) ==
    (IF "heartbeat.js" \in static
     THEN <<[Content |-> "heartbeat", InsertFirst |-> TRUE]>> ELSE <<>>)
    \o (IF "navigation.js" \in static
        THEN <<[Content |-> " navigation ", InsertFirst |-> TRUE]>> ELSE <<>>)

proxyHTTPRequest(p, header, r, up) ==
    IF up = Refused THEN Error(header, "App server unavailable", 503, "http")
    ELSE
        LET h == Set(Set(Set(CopyHeaders(header, up),
                             "Cache-Control",
                             "no-store, no-cache, must-revalidate, proxy-revalidate, max-age=0"),
                         "Pragma", "no-cache"),
                     "Expires", "0")
            isHTML == Contains(ToLowerAll(up.ContentType), "text/html")
            modifiedBody == InjectIntoHTML(ProxyScripts(p.static), up.Body)
        IN  IF isHTML
            THEN IF modifiedBody = NoHtmlTag THEN Response(up.status, h, up.Body, "http")
                 ELSE Response(up.status, h, modifiedBody, "http")
            ELSE Response(up.status, h, up.Body, "http")

\* Whether a request in loading mode is taken to ask for a page.
wantsHTML(r) ==
    \/ Contains(ToLowerAll(r.Accept), "text/html")
    \/ ~Contains(SubSeq(r.Path, LastIndex(r.Path, "/") + 1, Len(r.Path)), ".")
    \/ HasSuffix(r.Path, "/")

\* The loading branch of proxyHandler.
LoadingResponse(p, r) ==
    IF wantsHTML(r)
    THEN IF "loading.html" \in p.static
         THEN Response(200, Set(CorsHeader, "Content-Type", <<"text/html">>),
                       "loading.html", "local")
         ELSE Error(CorsHeader, "Internal Server Error", 500, "local")
    ELSE Error(Set(Set(CorsHeader, "Retry-After", "2"),
                   "Cache-Control", "no-store, no-cache, must-revalidate"),
               "Service Unavailable - Server is restarting", 503, "local")

\* A WebSocket upgrade goes to the upstream in loading mode too.
UpgradeFirst(p, r, up) ==
    IF r.Method = "OPTIONS" THEN Response(200, CorsHeader, "", "local")
    ELSE IF isWebSocketUpgrade(r) THEN handleWebSocket(CorsHeader, r, up)
    ELSE IF p.isLoading THEN LoadingResponse(p, r)
    ELSE proxyHTTPRequest(p, CorsHeader, r, up)

\* proxyHandler: the response to request r of ProxyServer p whose upstream
\* answers up.
proxyHandler(p, r, up) ==
    IF r.Method = "OPTIONS" THEN Response(200, CorsHeader, "", "local")
    ELSE IF p.isLoading THEN LoadingResponse(p, r)
    ELSE IF isWebSocketUpgrade(r) THEN handleWebSocket(CorsHeader, r, up)
    ELSE proxyHTTPRequest(p, CorsHeader, r, up)

\* What the proxy in front of port q gets from its upstream.
UpstreamOf(q) == IF Answers(q) THEN Upstream \ {Refused} ELSE {Refused}

\* No request went to the upstream.
NotAsked == [status |-> -1]

\* A request reaches a proxy.
ProxyArrive ==
    /\ req = NoRequest
    /\ \E r \in ProxyRequests, p \in ProxyServers : req' = [kind |-> "proxy", r |-> r, p |-> p]
    /\ resp' = NoResponse
    /\ UNCHANGED stateful

\* The proxy answers it; up is what the upstream answered when the request
\* went there.
ProxyServe ==
    /\ req # NoRequest /\ resp = NoResponse
    /\ \E up \in Upstream :
           LET out == proxyHandler(req.p, req.r, up)
           IN  resp' = [out |-> out, up |-> IF out.via = "local" THEN NotAsked ELSE up]
    /\ UNCHANGED <<req, stateful>>

\* ------------------------------------------------------ handleGetFileContent

MaxDepth == 3

\* The characters of a path element.
Chars(name) ==
    CASE name = ".." -> <<".", ".">>
      [] name = "ws" -> <<"w", "s">>
      [] name = "pq" -> <<"p", "q">>
      [] OTHER -> <<name>>

\* A path is abs (whether it starts with a separator) and its elements.
Path(abs, elems) == [abs |-> abs, elems |-> elems]

\* The string of a path.
RECURSIVE String(_)
String(path) ==
    IF path.elems = <<>> THEN (IF path.abs THEN <<"/">> ELSE <<>>)
    ELSE LET n == Len(path.elems)
             front == String(Path(path.abs, SubSeq(path.elems, 1, n - 1)))
         IN  (IF n > 1 \/ path.abs THEN front \o (IF n > 1 THEN <<"/">> ELSE <<>>) ELSE front)
             \o Chars(path.elems[n])

\* strings.HasPrefix.
HasPrefix(s, prefix) == Len(prefix) <= Len(s) /\ SubSeq(s, 1, Len(prefix)) = prefix

\* filepath.Clean: "." elements go, ".." takes the element before it away,
\* stays when the path is relative and nothing is before it, and goes when the
\* path is rooted and nothing is before it; the empty path becomes ".".
RECURSIVE CleanElems(_, _)
CleanElems(abs, elems) ==
    IF elems = <<>> THEN <<>>
    ELSE LET n == Len(elems)
             front == CleanElems(abs, SubSeq(elems, 1, n - 1))
             e == elems[n]
         IN  IF e = "." THEN front
             ELSE IF e # ".." THEN Append(front, e)
             ELSE IF front # <<>> /\ front[Len(front)] # ".."
                  THEN SubSeq(front, 1, Len(front) - 1)
             ELSE IF abs THEN front
             ELSE Append(front, e)

Clean(path) ==
    LET elems == CleanElems(path.abs, path.elems)
    IN  IF elems = <<>> /\ ~path.abs THEN Path(FALSE, <<".">>) ELSE Path(path.abs, elems)

\* filepath.Join of a non-empty first path with a second one.
Join(a, b) == Clean(Path(a.abs, a.elems \o b.elems))

workspacePath == Path(TRUE, <<"ws">>)

\* getProjectPath.
getProjectPath(projectID) == Join(workspacePath, Path(FALSE, <<projectID>>))

\* The regular files there can be; a directory is what a file lies below.
FilesOnDisk == {<<"ws", "p", "a">>, <<"ws", "pq", "a">>, <<"ws", "a">>}
IsDir(files, elems) ==
    \E f \in files : Len(f) > Len(elems) /\ SubSeq(f, 1, Len(elems)) = elems

\* The requests to /files/content, with the files on disk.
FileRequests ==
    [kind : {"file"}, ProjectID : {"p", "pq"},
     FilePath : {Path(abs, elems) : abs \in BOOLEAN,
                 elems \in UNION {[1..n -> {"..", ".", "a", "p", "pq"}] : n \in 0..MaxDepth}},
     files : SUBSET FilesOnDisk]

\* The check that the path is within the project directory.
CheckPrefix(fullPath, projectPath) == HasPrefix(String(fullPath), String(projectPath))

\* handleGetFileContent: the status and the file read, <<>> for none.
handleGetFileContent(input) ==
    LET projectPath == getProjectPath(input.ProjectID)
        filePath == Clean(input.FilePath)
        fullPath == Join(projectPath, filePath)
    IN  IF input.FilePath = Path(FALSE, <<>>) THEN [status |-> 400, read |-> <<>>]
        ELSE IF ~CheckPrefix(fullPath, projectPath) THEN [status |-> 400, read |-> <<>>]
        ELSE IF fullPath.elems \notin input.files /\ ~IsDir(input.files, fullPath.elems)
             THEN [status |-> 400, read |-> <<>>]
        ELSE IF IsDir(input.files, fullPath.elems) THEN [status |-> 400, read |-> <<>>]
        ELSE [status |-> 200, read |-> fullPath.elems]

\* A request for the content of a file arrives.
FileArrive ==
    /\ req = NoRequest
    /\ req' \in FileRequests
    /\ resp' = NoResponse
    /\ UNCHANGED stateful

\* handleGetFileContent answers it.
FileServe ==
    /\ req # NoRequest /\ resp = NoResponse
    /\ resp' = handleGetFileContent(req)
    /\ UNCHANGED <<req, stateful>>

\* ---------------------------------------------------------- handleGetCommits

MaxCommits == 3
MaxLimit == 3
DefaultLimit == 20

\* Commit hashes are numbers; NoCursor is the empty cursor.
NoCursor == 0

\* The histories git log can print: the short ones in every order of their
\* commits, and one that is longer than the default page.
Histories ==
    {h \in UNION {[1..n -> 1..MaxCommits + 1] : n \in 0..MaxCommits} :
        \A i, j \in DOMAIN h : h[i] = h[j] => i = j}
    \cup {[i \in 1..DefaultLimit + 2 |-> i]}

\* The requests to /git/commits of a client that starts with any cursor: a
\* hash of the history, one that is not in it, or none.  repo is whether the
\* project has a .git directory, allCommits what git log prints, pages what
\* the client has received before this request, first whether it began with
\* no cursor.
CommitsRequests ==
    {[kind |-> "commits", repo |-> repo, allCommits |-> h, Limit |-> limit, Cursor |-> cursor,
      pages |-> <<>>, first |-> cursor = NoCursor] :
        repo \in BOOLEAN, h \in Histories, limit \in -1..MaxLimit,
        cursor \in 0..MaxCommits + 2}

Min(a, b) == IF a < b THEN a ELSE b

\* The page starts at the commit of the cursor.
StartAtCursor(allCommits, cursor) ==
    IF cursor # NoCursor /\ \E i \in DOMAIN allCommits : allCommits[i] = cursor
    THEN (CHOOSE i \in DOMAIN allCommits :
              allCommits[i] = cursor /\ \A j \in 1..i - 1 : allCommits[j] # cursor) - 1
    ELSE 0

\* A cursor that is no hash of the list starts after the last commit.
StartPastEnd(allCommits, cursor) ==
    IF cursor = NoCursor THEN 0
    ELSE IF \E i \in DOMAIN allCommits : allCommits[i] = cursor
    THEN CHOOSE i \in DOMAIN allCommits :
             allCommits[i] = cursor /\ \A j \in 1..i - 1 : allCommits[j] # cursor
    ELSE Len(allCommits)

\* startIndex of handleGetCommits, counted from 0: one past the first commit
\* whose hash is the cursor, 0 when there is no cursor or no such commit.
StartIndex(allCommits, cursor) ==
    IF cursor # NoCursor /\ \E i \in DOMAIN allCommits : allCommits[i] = cursor
    THEN CHOOSE i \in DOMAIN allCommits :
             allCommits[i] = cursor /\ \A j \in 1..i - 1 : allCommits[j] # cursor
    ELSE 0

handleGetCommits(input) ==
    LET limit == IF input.Limit <= 0 THEN DefaultLimit ELSE input.Limit
        allCommits == input.allCommits
        startIndex == StartIndex(allCommits, input.Cursor)
        endIndex == Min(startIndex + limit, Len(allCommits))
        hasNextPage == endIndex < Len(allCommits)
        pageCommits == IF startIndex < Len(allCommits)
                       THEN SubSeq(allCommits, startIndex + 1, endIndex)
                       ELSE <<>>
    IN  IF ~input.repo THEN [status |-> 400]
        ELSE [status |-> 200, Commits |-> pageCommits, HasNextPage |-> hasNextPage,
              NextCursor |-> IF hasNextPage /\ Len(pageCommits) > 0
                             THEN pageCommits[Len(pageCommits)]
                             ELSE NoCursor]

\* A client sends its first request for commits.
CommitsArrive ==
    /\ req = NoRequest
    /\ req' \in CommitsRequests
    /\ resp' = NoResponse
    /\ UNCHANGED stateful

\* handleGetCommits answers a request.
CommitsServe ==
    /\ req # NoRequest /\ resp = NoResponse
    /\ resp' = handleGetCommits(req)
    /\ UNCHANGED <<req, stateful>>

\* The client asks for the next page: the same request with next_cursor as
\* its cursor.
CommitsFollow ==
    /\ req # NoRequest /\ resp # NoResponse
    /\ resp.status = 200 /\ resp.HasNextPage
    /\ req' = [req EXCEPT !.Cursor = resp.NextCursor, !.pages = @ \o resp.Commits]
    /\ resp' = NoResponse
    /\ UNCHANGED stateful

\* -------------------------------------------------------------- BuildFileTree

MaxEntries == 3
MaxTreeDepth == 2

\* The names an entry can have, in the order os.ReadDir lists them.
EntryNames == <<"Dist", "a", "dist">>

\* What is at a path of the disk: a regular file, a folder, a folder that
\* cannot be listed, or an entry whose os.Stat fails.
EntryKinds == {"file", "folder", "locked", "gone"}

\* The disks: the root, <<>>, and up to MaxEntries entries below it, each in a
\* folder.
Disks ==
    LET Names == {EntryNames[i] : i \in DOMAIN EntryNames}
        Below == UNION {[1..n -> Names] : n \in 1..MaxTreeDepth}
        Parent(path) == SubSeq(path, 1, Len(path) - 1)
    IN  {disk \in UNION {[P \cup {<<>>} -> EntryKinds] :
                            P \in {Q \in SUBSET Below : Cardinality(Q) <= MaxEntries}} :
            \A path \in DOMAIN disk :
                path # <<>> =>
                    /\ Parent(path) \in DOMAIN disk
                    /\ disk[Parent(path)] \in {"folder", "locked"}}

skippedDirs ==
    {"node_modules", "__pycache__", ".mypy_cache", ".pytest_cache", ".git", ".next",
     "dist", "build", ".venv", "venv", ".env", ".codepanda"}

skipDirectory(name) == ToLower(name) \in skippedDirs

\* filepath.Base of the project directory, root = <<>>, or of a path below it.
Base(project, root) == IF root = <<>> THEN project ELSE root[Len(root)]

\* The results of BuildFileTree that are no node.
NilNode == [nil |-> TRUE]
TreeError == [error |-> TRUE]

\* BuildFileTree(root) on the disk of a project: a Node, NilNode for nil, or
\* TreeError.
RECURSIVE BuildFileTree(_, _, _)
BuildFileTree(project, disk, root) ==
    LET baseName == Base(project, root)
        IsDirectory == disk[root] \in {"folder", "locked"}
        entries == SelectSeq(EntryNames, LAMBDA name : Append(root, name) \in DOMAIN disk)
        built == [i \in DOMAIN entries |->
                     BuildFileTree(project, disk, Append(root, entries[i]))]
    IN  IF disk[root] = "gone" THEN TreeError
        ELSE IF IsDirectory /\ skipDirectory(baseName) THEN NilNode
        ELSE IF ~IsDirectory THEN [Name |-> baseName, Type |-> "file", Children |-> <<>>]
        ELSE IF disk[root] = "locked" THEN TreeError
        ELSE [Name |-> baseName, Type |-> "folder",
              Children |-> SelectSeq(built, LAMBDA c : c \notin {NilNode, TreeError})]

\* The handler does not return: tree is nil and tree.Name is read. The
\* Recoverer of the router answers the request.
NilDereference == [status |-> 500, panic |-> "nil pointer dereference"]

\* handleGetFileTree on the disk of the project: the status and the root of
\* the response.
handleGetFileTree(project, disk) ==
    LET tree == BuildFileTree(project, disk, <<>>)
    IN  IF project = "" THEN [status |-> 400]
        ELSE IF tree = TreeError THEN [status |-> 500]
        ELSE IF tree = NilNode THEN NilDereference
        ELSE [status |-> 200, Root |-> tree]

\* A file tree is asked for, with no project id or with the id of a project
\* directory.
TreeArrive ==
    /\ req = NoRequest
    /\ \E project \in {"", "p", "Dist"}, disk \in Disks :
           req' = [kind |-> "tree", project |-> project, disk |-> disk]
    /\ resp' = NoResponse
    /\ UNCHANGED stateful

\* handleGetFileTree answers; tree is what its BuildFileTree returned.
TreeServe ==
    /\ req # NoRequest /\ resp = NoResponse
    /\ resp' = [tree |-> BuildFileTree(req.project, req.disk, <<>>),
                out |-> handleGetFileTree(req.project, req.disk)]
    /\ UNCHANGED <<req, stateful>>

\* ---------------------------------------------------------- specification

\* A request arrives.
Request(t) ==
    \E p \in Projects :
        \/ \E exists \in BOOLEAN : BeginStart(t, p, exists)
        \/ BeginStop(t, p)
        \/ BeginCheck(t, p)
        \/ \E success, restartServer \in BOOLEAN : BeginAddPackage(t, p, success, restartServer)

\* A step of the handler running on thread t, or of the stop goroutine of its
\* StopProject call.
Handler(t) ==
    \/ StopAllLock(t) \/ StopAllNext(t) \/ StopAllDone(t)
    \/ FindFreePort(t)
    \/ IsRunningLock(t) \/ IsRunningProbe(t)
    \/ StopProjectLock(t) \/ GorStopEnter(t) \/ GorStopExit(t)
    \/ StopProjectDone(t) \/ StopProjectTimeout(t)
    \/ StopProjectForceEnter(t) \/ StopProjectForceExit(t)
    \/ RestartSet(t) \/ WaiterReady(t) \/ WaiterTimeout(t)
    \/ RestartPort(t) \/ RestartProxy(t) \/ StartDevServer(t)
    \/ RestartReady(t) \/ RestartTimeout(t)
    \/ RestartFailStopEnter(t) \/ RestartFailStopExit(t)
    \/ RestartReset(t)

\* A step of a stop goroutine left behind on orchestrator o.
Orphan(o) == OrphanStopEnter(o) \/ OrphanStopExit(o)

Next ==
    \/ \E t \in Threads : Request(t) \/ Handler(t)
    \/ \E o \in Projects : Orphan(o)
    \/ \E p \in Ports : ChildReady(p) \/ ChildExit(p)

Spec == Init /\ [][Next]_vars

\* The Go scheduler runs every goroutine that can run: a handler, and a stop
\* goroutine, that can take a step eventually takes one.  Requests need not
\* arrive and a child need not become ready.
FairSpec ==
    /\ Spec
    /\ \A t \in Threads : WF_vars(Handler(t))
    /\ \A o \in Projects : WF_vars(Orphan(o))

\* The project whose supervisor is followed together with its output pumps.
PumpProject == "A"

\* A start or stop request for PumpProject arrives.
PumpRequest(t) ==
    \/ \E exists \in BOOLEAN : BeginStart(t, PumpProject, exists)
    \/ BeginStop(t, PumpProject)

\* A step of an output pump of supervisor o.
Pump(o) == PumpScan(o) \/ PumpAppend(o)

\* One project under start and stop requests, with the output pumps of its
\* children.
PumpNext ==
    \/ \E t \in Threads : PumpRequest(t) \/ Handler(t)
    \/ Orphan(PumpProject) \/ Pump(PumpProject)
    \/ \E p \in Ports : ChildReady(p) \/ ChildExit(p)

PumpSpec == Init /\ [][PumpNext]_vars

\* The proxy under requests of every shape, in both modes, in front of an
\* upstream that answers anything or nothing.
ProxyNext == ProxyArrive \/ ProxyServe

ProxySpec == Init /\ [][ProxyNext]_vars

\* /files/content under requests for every path, over every content of the
\* disk.
FileNext == FileArrive \/ FileServe

FileSpec == Init /\ [][FileNext]_vars

\* /git/commits under clients that page through a history.
CommitsNext == CommitsArrive \/ CommitsServe \/ CommitsFollow

CommitsSpec == Init /\ [][CommitsNext]_vars

\* InjectIntoHTML over every queue of scripts and every document.
InjectNext == InjectArrive \/ InjectServe

InjectSpec == Init /\ [][InjectNext]_vars

\* BuildFileTree over every disk.
TreeNext == TreeArrive \/ TreeServe

TreeSpec == Init /\ [][TreeNext]_vars

\* ensureHead over every document.
HeadNext == HeadArrive \/ HeadServe

HeadSpec == Init /\ [][HeadNext]_vars

\* ------------------------------------------------------------- properties

\* The proxies and children of project o.
PortsOf(o) == {p \in Ports : p < nextPort /\ portProj[p] = o}

\* C1: under any interleaving of start, add-package (with restart) and stop
\* requests, in every reachable state at most one orchestrator in the registry
\* has a proxy that has been started and not yet stopped.
C1_OneProxyOwner ==
    Cardinality({o \in registry : Started(orch[o].proxyServer)}) <= 1

\* The threads executing the restart body of orchestrator o.
Restarters(o) == {t \in Threads : InBody(t) /\ thr[t].proj = o}

\* A step of thread t as a caller of RestartProject that found restarting set:
\* it joins the wait, or its wait ends.
WaiterStep(t) ==
    \/ thr[t].pc = "rp_set" /\ thr'[t].pc = "w_wait"
    \/ thr[t].pc = "w_wait" /\ thr'[t].pc # "w_wait"

\* C2: for one orchestrator at most one RestartProject call at a time executes
\* the restart body, and a call that found restarting set changes no
\* orchestrator, proxy or supervisor state: it only waits on the readiness probe.
C2_OneRestartBody ==
    /\ [](\A o \in Projects : Cardinality(Restarters(o)) <= 1)
    /\ [][\A t \in Threads :
            WaiterStep(t) => UNCHANGED <<orch, sup, proxy, loading, child, nodeModules>>]_vars

\* C2's case: a caller waits while another executes the restart body past
\* the creation of its proxy.
C2_Witness ==
    \E t, u \in Threads :
        /\ thr[t].pc = "w_wait"
        /\ thr[u].proj = thr[t].proj
        /\ thr[u].pc \in {"rp_startdev", "rp_wait"}

\* A caller of RestartProject that found restarting set has returned r.
WaiterReturned(t, r) ==
    /\ thr[t].pc = "done"
    /\ thr[t].joined # NoPort
    /\ thr[t].res = r

\* The restarting caller of the restart on port q has returned r.
RestarterReturned(u, q, r) ==
    /\ thr[u].pc = "done"
    /\ thr[u].joined = NoPort
    /\ thr[u].myPort = q
    /\ thr[u].res = r

\* C3: a RestartProject call that found restarting set returns success if and
\* only if the restart in progress returns success, and never returns success
\* before the child started by the restart in progress has answered the
\* readiness probe on the new upstream port.
C3_WaiterSeesNewChild ==
    \A t \in Threads :
        /\ WaiterReturned(t, TRUE) => thr[t].probePort = thr[t].joined
        /\ \A u \in Threads, r \in BOOLEAN :
              WaiterReturned(t, r) /\ RestarterReturned(u, thr[t].joined, ~r) => FALSE

\* A check-preview for a project has returned.
CheckReturned(t) == thr[t].pc = "done" /\ thr[t].kind = "check"

C5_HealthyAfterStart ==
    \A t \in Threads :
        CheckReturned(t) /\ (\E q \in thr[t].expectUp : Answers(q)) => thr[t].res

\* Project o has no started proxy and no live child.
TornDown(o) == \A p \in PortsOf(o) : ~Started(p) /\ ~Alive(p)

\* C6: when a start or an add-package with restart has finished its stop-all
\* step and begins restarting the target project, every other orchestrator in
\* the registry has no started proxy and no live child process.
C6_StopAllStopsOthers ==
    [][\A t \in Threads :
          thr[t].pc = "sa_loop" /\ thr'[t].pc = "fp"
              => \A o \in registry \ {thr[t].proj} : TornDown(o)]_vars

\* The restarting caller of RestartProject is about to return an error: all
\* that is left is the deferred setRestarting(false).
ErrorReturn(t) == thr[t].pc = "rp_reset" /\ ~thr[t].res

C8_LoadingUntilProbed ==
    /\ \A p \in Ports : proxy[p] # "none" => loading[p] \/ p \in readyProbed
    /\ \A t \in Threads :
        /\ ErrorReturn(t) \/ (thr[t].pc = "done" /\ thr[t].joined = NoPort /\ ~thr[t].res)
        /\ thr[t].myPort # NoPort
        /\ proxy[thr[t].myPort] # "none"
        => loading[thr[t].myPort]

\* C8's case: one restart has switched its proxy to live mode, another has
\* created its proxy and returned an error.
C8_Witness ==
    /\ \E p \in Ports : proxy[p] # "none" /\ ~loading[p]
    /\ \E t \in Threads : ErrorReturn(t) /\ proxy[thr[t].myPort] = "stopped"

\* C9: a StopProject call acts only on the proxy and the child that existed
\* when the call began: the child it is stopping is the one that was current
\* when it took the orchestrator lock.
C9_StopActsOnSnapshot ==
    \A t \in Threads :
        thr[t].gor = "in" \/ thr[t].pc = "sp_force_in"
            => sup[thr[t].so].currentCmd = thr[t].sbegin

\* C10: every StopProject call eventually returns, from every reachable state,
\* also while another operation holds the supervisor lock or the child does
\* not exit on interrupt.
C10_StopProjectReturns ==
    \A t \in Threads : thr[t].pc \in StopProjectPcs ~> thr[t].pc \notin StopProjectPcs

\* The stop handler on thread t is about to return success: the stop goroutine
\* of its StopProject call has sent true on done.
StopSucceeds(t) ==
    /\ thr[t].pc = "sp_wait"
    /\ thr[t].ctx = "h"
    /\ thr[t].gor = "done"
    /\ thr[t].gres

StartWithChild(t) ==
    /\ thr[t].pc = "rp_startdev"
    /\ sup[thr[t].proj].cmdMutex = Free
    /\ sup[thr[t].proj].currentCmd # NoPort

\* C12: StartDevServer called while the supervisor has a current child fails
\* with an error: the call returns it (RestartProject then returns the error),
\* no second child is spawned, and the supervisor and the existing child are
\* left unchanged.
C12_StartWithChildFails ==
    [][\A t \in Threads :
          StartWithChild(t) /\ thr'[t].pc # "rp_startdev"
              => /\ thr'[t].pc = "rp_reset" /\ ~thr'[t].res
                 /\ UNCHANGED <<sup, child>>]_vars

\* The live children of supervisor o.
LiveChildren(o) == {p \in PortsOf(o) : Alive(p)}

\* C13: in every reachable state each supervisor has at most one live child
\* process, and it is the supervisor's current child: no child spawned earlier
\* is still alive when a new one is spawned, also after stops that returned
\* false.
C13_OneLiveChild ==
    \A o \in Projects :
        /\ Cardinality(LiveChildren(o)) <= 1
        /\ \A p \in LiveChildren(o) : sup[o].currentCmd = p

\* C13's case: a supervisor has spawned a new child after a stop that returned
\* false because the kill of an earlier child timed out.
C13_Witness ==
    \E p \in killTimedOut, q \in Ports :
        /\ portProj[q] = portProj[p]
        /\ child[p] = "dead"
        /\ Alive(q)

\* C14: StopCurrentProcess returns true if and only if the supervisor had a
\* current child when it was called and that child has exited by the time the
\* call returns (the call made by the stop goroutine of StopProject, whose
\* result is kept).
C14_StopTrueIffGone ==
    [][\A t \in Threads :
          /\ thr[t].gor = "lock" /\ thr'[t].gor = "done" => ~thr'[t].gres
          /\ thr[t].gor = "in" /\ thr'[t].gor = "done"
                => (thr'[t].gres <=> child'[sup[thr[t].so].currentCmd] = "dead")]_vars

\* C15: in every reachable state in which the supervisor has no current child,
\* its output buffer is empty: once StopCurrentProcess has cleared the child
\* and the buffer, no output pump that was waiting for the supervisor lock
\* appends a line of the stopped child.
C15_NoChildNoOutput ==
    \A o \in Projects : sup[o].currentCmd = NoPort => sup[o].processOutput = 0

\* Thread t, or the stop goroutine of its StopProject call, is blocked in an
\* HTTP probe (IsRunning, waitForAppReady) or in the process wait of
\* StopCurrentProcess.
InBlockingCall(t) ==
    \/ thr[t].pc \in {"ir_probe", "rp_wait", "w_wait"}
    \/ thr[t].pc \in {"sp_force_in", "rp_fw_in"}
    \/ thr[t].gor = "in"

\* The mutexes held by thread t or by the stop goroutine of its StopProject
\* call.
LocksHeld(t) ==
    (IF regLock = t THEN {<<"registry", "s">>} ELSE {})
        \cup {<<"orchestrator", o>> : o \in {q \in Projects : orch[q].mu = t}}
        \cup {<<"supervisor", o>> : o \in {q \in Projects : sup[q].cmdMutex \in {t, GorId(t)}}}

\* C16: no task holds the registry lock, an orchestrator lock or a supervisor
\* lock while it is blocked in a process wait or an HTTP probe.
C16_NoLockWhileBlocked ==
    \A t \in Threads : InBlockingCall(t) => LocksHeld(t) = {}

\* What the IsRunning call of thread t returns, on the step on which it
\* returns: to the check-preview handler, or to stopAllProjects, which calls
\* StopProject iff it is true.
IsRunningReturns(t) == IF thr[t].kind = "check" THEN thr'[t].res ELSE thr'[t].pc = "sp_lock"

\* C17: IsRunning returns true if and only if, when it read the orchestrator
\* under o.mu, the proxy handle was present and restarting was false, and its
\* HEAD probe to the upstream port it read got a response; an IsRunning that
\* reads the orchestrator between the start and the return of a RestartProject
\* body returns false.
C17_IsRunningIff ==
    /\ [][\A t \in Threads :
            /\ thr[t].pc = "ir_lock" /\ thr'[t].pc # "ir_lock" =>
                  IF orch[thr[t].so].proxyServer # NoPort /\ ~orch[thr[t].so].isRestarting
                  THEN thr'[t].pc = "ir_probe" /\ thr'[t].probePort = orch[thr[t].so].appPort
                  ELSE thr'[t].pc # "ir_probe" /\ ~IsRunningReturns(t)
            /\ thr[t].pc = "ir_probe" /\ thr'[t].pc # "ir_probe" =>
                  (IsRunningReturns(t) <=> Answers(thr[t].probePort))]_vars
    /\ [](\A t \in Threads : thr[t].inBody => thr[t].pc = "done" /\ ~thr[t].res)

\* C17's case: the IsRunning of a check-preview has returned false although
\* the proxy was present and the upstream port answered, because it read the
\* orchestrator during a RestartProject body; another has returned true.
C17_Witness ==
    \E t \in Threads :
        /\ thr[t].inBody
        /\ thr[t].pc = "done"
        /\ orch[thr[t].proj].proxyServer # NoPort
        /\ Answers(orch[thr[t].proj].appPort)
        /\ Restarting(thr[t].proj)

\* Thread t is the one that takes the next request.
Acceptor(t) ==
    /\ thr[t].pc \in {"idle", "done"}
    /\ \A u \in Threads : u < t => thr[u].pc \notin {"idle", "done"}

\* The step is one of a check-preview handler on thread t: the request is
\* taken, or IsRunning reads the orchestrator or gets the answer of its probe.
CheckStep(t) ==
    \/ reqCount' # reqCount /\ Acceptor(t) /\ thr'[t].kind = "check"
    \/ reqCount' = reqCount /\ thr[t].kind = "check" /\ thr'[t].pc # thr[t].pc

\* C18: check-preview reports healthy=true if and only if the registry already
\* holds an orchestrator for the project and that orchestrator's IsRunning
\* returns true; the request creates no orchestrator and changes no
\* orchestrator, supervisor, proxy or child state.
C18_CheckPreviewReadsOnly ==
    [][\A t \in Threads :
          CheckStep(t) =>
              /\ UNCHANGED <<registry, orch, sup, proxy, loading, child, nodeModules>>
              /\ reqCount' # reqCount =>
                    (thr'[t].pc = "ir_lock" <=> thr'[t].proj \in registry)
              /\ thr'[t].pc = "done" =>
                    (thr'[t].res <=> /\ thr[t].pc = "ir_probe"
                                     /\ thr[t].proj \in registry
                                     /\ Answers(thr[t].probePort))]_vars

\* C18's case: one check-preview has reported healthy=true, another, for a
\* project that has no orchestrator, healthy=false.
C18_Witness ==
    \E t, u \in Threads :
        /\ CheckReturned(t) /\ thr[t].res
        /\ CheckReturned(u) /\ ~thr[u].res /\ thr[u].proj \notin registry

\* The step is one of the handler of a start request, on thread t, for a
\* project whose directory does not exist.
MissingStartStep(t) ==
    \/ reqCount' # reqCount /\ Acceptor(t) /\ thr'[t].kind = "start" /\ thr'[t].missing
    \/ reqCount' = reqCount /\ thr[t].missing /\ thr'[t].pc # thr[t].pc

\* C19: a start request for a project whose directory does not exist returns
\* an error at once and has no effect: no project is stopped, no orchestrator
\* is created, no proxy or child is started.
C19_MissingDirNoEffect ==
    [][\A t \in Threads :
          MissingStartStep(t) =>
              /\ thr'[t].pc = "done" /\ ~thr'[t].res
              /\ UNCHANGED <<registry, regLock, orch, sup, proxy, loading, child,
                             nodeModules, nextPort>>]_vars

\* C19's case: a start request for a project whose directory does not exist
\* has returned while another project is running.
C19_Witness ==
    \E t \in Threads :
        /\ thr[t].missing
        /\ thr[t].pc = "done"
        /\ \E o \in Projects \ {thr[t].proj} : Running(o) /\ Started(orch[o].proxyServer)

\* The add-package handler on thread t has gone on to stopAllProjects and
\* RestartProject.
WentOnToRestart(t) == thr[t].pc # "done" \/ thr[t].myPort # NoPort

\* The step is the add-package handler on thread t taking a request that ends
\* without a restart.
AddOnlyStep(t) ==
    /\ reqCount' # reqCount
    /\ Acceptor(t)
    /\ thr'[t].kind = "addpkg"
    /\ ~(thr'[t].added /\ thr'[t].restartServer)

AnsweredLoading ==
    /\ req.kind = "proxy" /\ resp # NoResponse
    /\ req.p.isLoading
    /\ req.r.Method # "OPTIONS"

\* The request is for a page: its Accept header lists text/html, or no '.'
\* comes after the last '/' of its path, or its path ends with '/'.
ForPage(r) ==
    \/ \E i \in DOMAIN r.Accept : ToLower(r.Accept[i]) = "text/html"
    \/ \A i \in DOMAIN r.Path : r.Path[i] = "." => \E j \in DOMAIN r.Path : j > i /\ r.Path[j] = "/"
    \/ r.Path[Len(r.Path)] = "/"

\* The 503 of loading mode.
Restarting503(out) ==
    /\ out.status = 503
    /\ Values(out.Header, "Retry-After") = {"2"}
    /\ Values(out.Header, "Cache-Control") = {"no-store, no-cache, must-revalidate"}

\* C21 as stated: in loading mode every request that is not a preflight is
\* answered by the proxy itself, with 200 and the loading page when it is for
\* a page and with the 503 of loading mode otherwise.
C21_LoadingAnsweredLocally ==
    AnsweredLoading =>
        /\ resp.out.via = "local" /\ resp.up = NotAsked
        /\ IF ForPage(req.r)
           THEN resp.out.status = 200 /\ resp.out.Body = "loading.html"
           ELSE Restarting503(resp.out)

\* C21, amended: in loading mode every request that is not a preflight is
\* answered by the proxy itself and never goes to the upstream, WebSocket
\* upgrades included; a request for a page gets 200 with the loading page
\* when loading.html can be read and 500 when it cannot, any other request
\* gets 503 with Retry-After: 2 and Cache-Control: no-store, no-cache,
\* must-revalidate.
C21_LoadingAnsweredLocallyIfReadable ==
    AnsweredLoading =>
        /\ resp.out.via = "local" /\ resp.up = NotAsked
        /\ IF ForPage(req.r)
           THEN IF "loading.html" \in req.p.static
                THEN resp.out.status = 200 /\ resp.out.Body = "loading.html"
                ELSE resp.out.status = 500
           ELSE Restarting503(resp.out)

\* C21's case: a WebSocket upgrade for an asset has been answered in loading
\* mode.
C21_Witness ==
    /\ AnsweredLoading
    /\ isWebSocketUpgrade(req.r)
    /\ ~ForPage(req.r)
    /\ resp.out.status = 503


\* The path of the request, resolved below the project directory, is the
\* project directory or a descendant of it.
InsideProject(input) ==
    LET projectPath == getProjectPath(input.ProjectID)
        resolved == Clean(Path(TRUE, projectPath.elems \o input.FilePath.elems))
    IN  /\ Len(resolved.elems) >= Len(projectPath.elems)
        /\ \A i \in 1..Len(projectPath.elems) : resolved.elems[i] = projectPath.elems[i]

\* C22: a request to /files/content whose path resolves to neither the
\* project directory nor a descendant of it is answered 400 and no file is
\* read, a path into a sibling directory whose name starts with the name of
\* the project directory included.
C22_OutsideProjectRefused ==
    (req.kind = "file" /\ resp # NoResponse /\ ~InsideProject(req)) =>
        resp.status = 400 /\ resp.read = <<>>


\* A page has come back to a client that began with no cursor and has
\* followed next_cursor since, asking for at least one commit a page.
PagedFromStart ==
    /\ req.kind = "commits" /\ resp # NoResponse
    /\ resp.status = 200
    /\ req.first /\ req.Limit >= 1

\* C23: the pages a client receives by starting with no cursor and following
\* next_cursor while has_next_page is true are, put together, the commit list
\* in order with every commit once, and the paging ends: every page but the
\* last brings at least one commit further down the list, and the last page
\* completes the list.
C23_PagesMakeTheList ==
    PagedFromStart =>
        LET got == req.pages \o resp.Commits
        IN  /\ Len(got) <= Len(req.allCommits)
            /\ got = SubSeq(req.allCommits, 1, Len(got))
            /\ resp.HasNextPage => Len(resp.Commits) >= 1 /\ resp.NextCursor = got[Len(got)]
            /\ ~resp.HasNextPage => got = req.allCommits

\* C23's case: the last of three pages has come back.
C23_Witness ==
    /\ PagedFromStart
    /\ ~resp.HasNextPage
    /\ req.Limit = 1
    /\ Len(req.pages) = 2 /\ Len(resp.Commits) = 1


\* A page has come back for a cursor that is the hash of a commit of the
\* list.
PagedFromCursor ==
    /\ req.kind = "commits" /\ resp # NoResponse
    /\ resp.status = 200
    /\ \E i \in DOMAIN req.allCommits : req.allCommits[i] = req.Cursor

\* C30: for a cursor that is the hash at place i of the commit list and the
\* effective limit L (the limit when it is at least 1, 20 otherwise) the page
\* is the commits at places i+1 .. i+L, cut at the end of the list;
\* has_next_page is true exactly when commits remain after the page, and
\* next_cursor is the hash of the last commit of the page exactly when
\* has_next_page is true, and empty otherwise.
C30_PageAfterCursor ==
    PagedFromCursor =>
        LET n == Len(req.allCommits)
            i == CHOOSE k \in 1..n : req.allCommits[k] = req.Cursor
            L == IF req.Limit >= 1 THEN req.Limit ELSE 20
            page == resp.Commits
        IN  /\ Len(page) = (IF i + L <= n THEN L ELSE n - i)
            /\ \A k \in 1..Len(page) : page[k] = req.allCommits[i + k]
            /\ resp.HasNextPage <=> i + Len(page) < n
            /\ IF resp.HasNextPage
               THEN page # <<>> /\ resp.NextCursor = page[Len(page)]
               ELSE resp.NextCursor = NoCursor

\* C30's case: a request without a limit has been answered with the twenty
\* commits after its cursor, and more remain.
C30_Witness ==
    /\ PagedFromCursor
    /\ req.Limit = 0
    /\ Len(resp.Commits) = 20
    /\ resp.HasNextPage


\* A page has come back for a cursor that is the hash of no commit of the
\* list.
PagedFromStaleCursor ==
    /\ req.kind = "commits" /\ resp # NoResponse
    /\ req.repo
    /\ req.Cursor # NoCursor
    /\ \A i \in DOMAIN req.allCommits : req.allCommits[i] # req.Cursor

\* C38: a request whose cursor is the hash of no commit of the list is
\* answered 200 with the first page of the list, the first L commits for the
\* effective limit L, which is the answer to the same request without a
\* cursor; it is not an error and, for a list that has commits, not an empty
\* page.
C38_StaleCursorFirstPage ==
    PagedFromStaleCursor =>
        LET n == Len(req.allCommits)
            L == IF req.Limit >= 1 THEN req.Limit ELSE 20
        IN  /\ resp.status = 200
            /\ resp.Commits = SubSeq(req.allCommits, 1, IF L <= n THEN L ELSE n)
            /\ n > 0 => resp.Commits # <<>>
            /\ resp = handleGetCommits([req EXCEPT !.Cursor = NoCursor])

\* C38's case: a request with a cursor that is in no commit of a list of
\* three has been answered with the first two commits.
C38_Witness ==
    /\ PagedFromStaleCursor
    /\ Len(req.allCommits) = 3 /\ req.Limit = 2
    /\ resp.Commits = SubSeq(req.allCommits, 1, 2)
    /\ resp.HasNextPage

\* InjectIntoHTML has returned a document.
Injected == req.kind = "inject" /\ resp # NoResponse /\ resp.out # NoHtmlTag

\* The script elements of the queued scripts that are, or are not,
\* insert_first, in queue order.
ScriptsOf(scripts, first) ==
    LET chosen == SelectSeq(scripts, LAMBDA c : c.InsertFirst = first)
    IN  [i \in DOMAIN chosen |-> ScriptNode(chosen[i])]

\* The two scripts of the proxy, heartbeat queued first.
BothScripts ==
    <<[Content |-> "heartbeat", InsertFirst |-> TRUE],
      [Content |-> " navigation ", InsertFirst |-> TRUE]>>

\* C24: InjectIntoHTML makes every queued script a child of the one head of
\* the document: taken in queue order, an insert_first script goes before the
\* first child the head has then and any other script after its last child,
\* so the head holds the insert_first scripts, last queued first, then its
\* original children in their order, then the other scripts in queue order.
\* With the two insert_first scripts of the proxy the first two children of
\* head are those two scripts and the original children follow.
C24_ScriptsIntoHead ==
    Injected =>
        LET kids == resp.out.kids
            firsts == ScriptsOf(req.scripts, TRUE)
            lasts == ScriptsOf(req.scripts, FALSE)
            orig == req.content.kids
        IN  /\ resp.out.htmlTag /\ resp.out.headTag
            /\ kids = [i \in DOMAIN firsts |-> firsts[Len(firsts) + 1 - i]] \o orig \o lasts
            /\ req.scripts = BothScripts =>
                   /\ {kids[1], kids[2]} = {ScriptNode(BothScripts[1]), ScriptNode(BothScripts[2])}
                   /\ kids[1] # kids[2]
                   /\ SubSeq(kids, 3, Len(kids)) = orig

\* C24's case: the two scripts of the proxy have gone into a head that had
\* two children.
C24_Witness ==
    /\ Injected
    /\ req.scripts = BothScripts
    /\ Len(req.content.kids) = 2
    /\ Len(resp.out.kids) = 4


\* The proxy has passed on an answer of the upstream that is not HTML.
PassedOn ==
    /\ req.kind = "proxy" /\ resp # NoResponse
    /\ resp.out.via = "http"
    /\ resp.up # Refused
    /\ \A i \in DOMAIN resp.up.ContentType : ToLower(resp.up.ContentType[i]) # "text/html"

\* The headers the upstream sent, those with the given names left out.
Without(header, names) == {x \in header : x[1] \notin names}

\* The cache headers every proxied response is given.
NoCache ==
    {<<"Cache-Control", "no-store, no-cache, must-revalidate, proxy-revalidate, max-age=0">>,
     <<"Pragma", "no-cache">>, <<"Expires", "0">>}

\* The CORS headers of the proxy.
Cors ==
    {<<"Access-Control-Allow-Origin", "*">>,
     <<"Access-Control-Allow-Methods", "GET, POST, OPTIONS">>,
     <<"Access-Control-Allow-Headers",
       "Accept, Authorization, Content-Type, Upgrade, Connection">>}

\* What is left of the headers of the upstream: Content-Length, Cache-Control,
\* ETag and Last-Modified are dropped, Pragma and Expires are replaced.
Kept(up) ==
    Without(UpstreamHeader(up),
            {"Content-Length", "Cache-Control", "ETag", "Last-Modified", "Pragma", "Expires"})

\* C25 as stated: an answer of the upstream that is not HTML is passed on with
\* its status and its body, and its headers are those of the upstream with
\* Content-Length, Cache-Control, ETag and Last-Modified dropped and
\* Cache-Control, Pragma and Expires set to the no-cache values.
C25_PassedOnUnchanged ==
    PassedOn =>
        /\ resp.out.status = resp.up.status
        /\ resp.out.Body = resp.up.Body
        /\ resp.out.Header = Kept(resp.up) \cup NoCache

\* C25, amended: an answer of the upstream that is not HTML is passed on with
\* its status and its body; its headers are those of the upstream with
\* Content-Length, Cache-Control, ETag and Last-Modified dropped and
\* Cache-Control, Pragma and Expires set to the no-cache values, together
\* with the three Access-Control-Allow headers of the proxy, which stand
\* beside any values the upstream sent under those names.
C25_PassedOnWithCors ==
    PassedOn =>
        /\ resp.out.status = resp.up.status
        /\ resp.out.Body = resp.up.Body
        /\ resp.out.Header = Kept(resp.up) \cup NoCache \cup Cors

\* C25's case: a 404 that is not HTML and carries an ETag has been passed on.
C25_Witness ==
    /\ PassedOn
    /\ resp.up.status = 404
    /\ <<"ETag", "x">> \in resp.up.Header
    /\ resp.up.ContentType = <<"application/json">>


\* BuildFileTree has returned the tree of a root that can be listed.
TreeBuilt ==
    /\ req.kind = "tree" /\ resp # NoResponse
    /\ req.project # "" /\ req.disk[<<>>] = "folder"

\* The nodes of a tree, each with the path it stands at, in the order of a
\* walk of the tree.
RECURSIVE NodesOf(_, _)
RECURSIVE NodesOfAll(_, _, _)
NodesOf(node, path) ==
    <<[path |-> path, Type |-> node.Type]>> \o NodesOfAll(node.Children, path, 1)
NodesOfAll(children, path, i) ==
    IF i > Len(children) THEN <<>>
    ELSE NodesOf(children[i], Append(path, children[i].Name))
         \o NodesOfAll(children, path, i + 1)

\* The entry is a directory below the root whose lowercased name is in the
\* skip set.
Pruned(disk, path) ==
    /\ path # <<>>
    /\ disk[path] \in {"folder", "locked"}
    /\ ToLower(path[Len(path)]) \in skippedDirs

\* The walk gets to the entry: every directory above it can be listed and is
\* not pruned.
Visited(disk, path) ==
    \A k \in 0..Len(path) - 1 :
        disk[SubSeq(path, 1, k)] = "folder" /\ ~Pruned(disk, SubSeq(path, 1, k))

\* C26: the tree of a project directory that can be listed has no node for
\* a directory below the root whose lowercased name is in the skip set nor
\* for anything inside one, and it has exactly one node, at its own place,
\* for every other directory that can be listed and for every regular file
\* the walk gets to, a regular file with a name of the skip set included.
C26_PrunesSkippedOnly ==
    TreeBuilt =>
        LET nodes == IF resp.tree \in {NilNode, TreeError} THEN <<>>
                     ELSE NodesOf(resp.tree, <<>>)
            expected == {path \in DOMAIN req.disk :
                            /\ Visited(req.disk, path)
                            /\ ~Pruned(req.disk, path)
                            /\ req.disk[path] \in {"file", "folder"}}
        IN  /\ {nodes[i].path : i \in DOMAIN nodes} = expected
            /\ \A i, j \in DOMAIN nodes : nodes[i].path = nodes[j].path => i = j
            /\ \A i \in DOMAIN nodes : nodes[i].Type = req.disk[nodes[i].path]

\* C32: for a project directory that exists and can be listed the handler
\* answers 200 with a root node of type folder that has the base name of the
\* directory, also when the lowercased name of the project directory is in
\* the skip set.
C32_RootIsFolder ==
    TreeBuilt =>
        /\ resp.out.status = 200
        /\ resp.out.Root.Type = "folder"
        /\ resp.out.Root.Name = req.project

\* C27: the registry holds at most one orchestrator for a project path: the
\* first getOrchestrator for the path makes it, and no step of any request
\* removes the entry or puts another orchestrator in its place, so every
\* later lookup finds that one.
C27_OneOrchestratorPerPath ==
    /\ [](\A p \in Projects : orch[p].id = (IF p \in registry THEN 1 ELSE 0))
    /\ [][\A p \in registry : p \in registry' /\ orch'[p].id = orch[p].id]_vars

\* C27's case: a stop request has looked up the orchestrator of a running
\* project while a request for the other project is under way.
C27_Witness ==
    \E t, u \in Threads :
        /\ thr[t].kind = "stop" /\ thr[t].pc = "sp_lock"
        /\ Running(thr[t].proj)
        /\ thr[u].pc \notin {"idle", "done"} /\ thr[u].proj # thr[t].proj


\* The step is thread t's RestartProject going past the test for node_modules.
InstallStep(t) == thr[t].pc = "rp_port" /\ thr'[t].pc # "rp_port"

\* The step is the return of thread t's RestartProject after a failed install.
InstallFailedReturn(t) ==
    thr[t].pc = "rp_reset" /\ thr'[t].pc = "done" /\ thr[t].installFailed

\* C28: in a restart the install command runs if and only if node_modules is
\* missing at the project root: with node_modules present nothing is
\* installed and the restart goes on to the proxy, with node_modules missing
\* the restart goes on exactly when the install succeeds.  After a failed
\* install the restart returns an error, having created no proxy and started
\* no child, and with restarting reset to false.
C28_InstallIffMissing ==
    /\ [][\A t \in Threads :
            InstallStep(t) =>
                IF nodeModules[thr[t].proj]
                THEN /\ thr'[t].pc = "rp_proxy"
                     /\ ~thr'[t].installFailed
                     /\ UNCHANGED <<nodeModules, faults>>
                ELSE /\ thr'[t].installFailed <=> ~nodeModules'[thr[t].proj]
                     /\ thr'[t].pc = (IF thr'[t].installFailed THEN "rp_reset"
                                                        ELSE "rp_proxy")]_vars
    /\ [][\A t \in Threads :
            InstallFailedReturn(t) =>
                /\ ~thr'[t].res
                /\ proxy'[thr[t].myPort] = "none"
                /\ child'[thr[t].myPort] = "none"
                /\ orch'[thr[t].proj].proxyServer = NoPort
                /\ ~orch'[thr[t].proj].isRestarting]_vars

\* C28's case: a restart has returned after a failed install.
C28_Witness ==
    \E t \in Threads :
        /\ thr[t].pc = "done" /\ thr[t].installFailed
        /\ ~orch[thr[t].proj].isRestarting
        /\ proxy[thr[t].myPort] = "none"


\* Orchestrator o has come out of a successful restart and its child has
\* exited since: the proxy is started and in live mode, restarting is false,
\* and nothing answers on the upstream port.
ChildGone(o) ==
    /\ o \in registry
    /\ RunningState(o)
    /\ Listening(orch[o].proxyServer) /\ ~loading[orch[o].proxyServer]
    /\ child[orch[o].appPort] = "dead"

\* The method of each request and the status a proxy in live mode answers it
\* with when its upstream port refuses the connection.
RefusedAnswers ==
    {<<r.Method, proxyHandler(p, r, Refused).status>> :
        p \in {q \in ProxyServers : ~q.isLoading}, r \in ProxyRequests}

\* The proxy of orchestrator o is in live mode, its upstream port refuses
\* every connection, and the answers it gives are the given ones.
AnswersOfProxy(o, answers) ==
    /\ ~loading[orch[o].proxyServer]
    /\ UpstreamOf(orch[o].appPort) = {Refused}
    /\ RefusedAnswers = answers

\* The exit of a child that no StopCurrentProcess is stopping leaves the
\* orchestrators, the supervisors and the proxies as they are; a started proxy
\* in live mode does not go back to loading mode; an IsRunning whose probe
\* goes to a port on which the child has exited returns false.
ChildGoneUnnoticed ==
    /\ [][(\E q \in Ports : /\ child[q] = "ready" /\ child'[q] = "dead"
                             /\ sup[portProj[q]].cmdMutex = Free)
             => UNCHANGED <<registry, orch, sup, proxy, loading>>]_vars
    /\ [][\A q \in Ports : Started(q) /\ ~loading[q] => ~loading'[q]]_vars
    /\ [][\A t \in Threads :
            (thr[t].pc = "ir_probe" /\ thr'[t].pc # "ir_probe"
             /\ child[thr[t].probePort] = "dead") => ~IsRunningReturns(t)]_vars

EnsuredHead == req.kind = "head" /\ resp # NoResponse

\* The paths of the nodes of tree n in depth-first document order.
RECURSIVE Preorder(_)
RECURSIVE PreorderBelow(_, _)
Preorder(n) == <<<<>>>> \o PreorderBelow(n.kids, Len(n.kids))
PreorderBelow(kids, k) ==
    IF k = 0 THEN <<>>
    ELSE LET below == Preorder(kids[k])
         IN  PreorderBelow(kids, k - 1) \o [j \in DOMAIN below |-> <<k>> \o below[j]]

\* The paths of the elements of the document with the tag, in document order.
Tagged(doc, tag) == SelectSeq(Preorder(doc), LAMBDA path : Sub(doc, path).tag = tag)

InRestartProject(t) == thr[t].pc \in {"rp_set", "w_wait"} \/ InBody(t)

\* C33: every RestartProject call eventually returns, from every reachable
\* state, also when the supervisor still records a current child at the
\* moment the call gets to StartDevServer; no call blocks for ever on the
\* supervisor lock.
C33_RestartProjectReturns ==
    \A t \in Threads : InRestartProject(t) ~> ~InRestartProject(t)


\* The step is the restarting caller on thread t returning success.
RestartSucceeds(t) ==
    /\ thr[t].pc = "rp_reset" /\ thr'[t].pc = "done"
    /\ thr[t].res

\* C34: when the restarting caller of RestartProject returns success, the
\* proxy it created, which forwards to the upstream port of that restart, is
\* listening on the public port and is in live mode; a restart whose proxy
\* could not bind the public port does not return success.
C34_SuccessMeansListening ==
    [][\A t \in Threads :
          RestartSucceeds(t) =>
              /\ orch[thr[t].proj].appPort = thr[t].myPort
              /\ Listening(thr[t].myPort)
              /\ ~loading[thr[t].myPort]]_vars


\* C35: in every state in which IsRunning can take the orchestrator lock and
\* read the proxy handle, a handle that is present refers to a proxy that has
\* not been stopped: whatever stops a proxy clears the handle as well.
C35_HandleMeansNotStopped ==
    \A o \in Projects :
        orch[o].mu = Free /\ orch[o].proxyServer # NoPort
            => proxy[orch[o].proxyServer] # "stopped"


\* C36: the proxy handle, the restarting flag and the upstream port of an
\* orchestrator are only accessed by the task that holds its lock: no step
\* changes one of these fields while another task holds the lock.
C36_FieldsUnderLock ==
    [][\A o \in Projects :
         orch[o].mu # Free =>
            /\ orch'[o].proxyServer = orch[o].proxyServer
            /\ orch'[o].isRestarting = orch[o].isRestarting
            /\ orch'[o].appPort = orch[o].appPort]_vars


\* The stop task of thread t runs StopCurrentProcess in this step and finds
\* no current child.
StopTaskFindsNoChild(t) ==
    /\ thr[t].gor = "lock"
    /\ thr'[t].gor = "done"
    /\ sup[thr[t].so].currentCmd = NoPort

\* StopProject of thread t returns in this step, on the result of its stop task.
StopProjectReturns(t) ==
    /\ thr[t].pc = "sp_wait"
    /\ thr[t].gor = "done"
    /\ thr'[t].pc = AfterStop(t)

\* C37: a stop task that finds no current child reports false, whether or not
\* StopProject stopped a proxy, and the StopProject of /projects/stop that
\* receives false makes the handler fail (status 500).
C37_StopWithoutChildFails ==
    [][\A t \in Threads :
         /\ StopTaskFindsNoChild(t) => ~thr'[t].gres
         /\ StopProjectReturns(t) /\ thr[t].kind = "stop" /\ ~thr[t].gres
                => thr'[t].pc = "done" /\ ~thr'[t].res]_vars

\* A /projects/stop whose StopProject stopped a proxy, found no current child
\* when it took the lock or when its stop task ran, and is about to return
\* false.
C37_Witness ==
    \E t \in Threads :
        /\ thr[t].kind = "stop" /\ thr[t].pc = "sp_wait" /\ thr[t].gor = "done"
        /\ ~thr[t].gres
        /\ thr[t].sproxy # NoPort /\ proxy[thr[t].sproxy] = "stopped"
        /\ thr[t].sbegin = NoPort /\ sup[thr[t].so].currentCmd = NoPort

====
